---------------------------- MODULE Spec2Model ----------------------------
(***************************************************************************)
(* A model of the dgagent desktop assistant: the agent loop of             *)
(* AIAgentService.chat (electron/services/aiAgent.ts), the conversation    *)
(* store it writes to (electron/services/conversationManager.ts), the      *)
(* chat-send IPC handler (electron/main.ts) and the renderer's send/stop   *)
(* handlers (src/components/SummaryTab.tsx); with them the services the    *)
(* agent uses: pythonService, multiLayerKB, knowledgeBase, documentWatcher *)
(* and fillingAgent (electron/services).                                   *)
(*                                                                         *)
(* Text is modelled as a sequence of segments.  A model output is a        *)
(* whitespace-separated sequence of: plain text, a code fence (tagged json *)
(* or not), and brace-delimited objects.  The regular expressions of the   *)
(* tool-call extraction are evaluated on that sequence.                    *)
(***************************************************************************)
EXTENDS Naturals, Sequences, FiniteSets, TLC

\* ------------------------------------------------------------------ bounds
\* Longest model output, in segments, that the model may return.
MaxSegs == 4
\* Longest csvContent handed to processForm, in pieces of text.
MaxCsv == 5
\* Most watcher handlers suspended at parseFile at one time.
MaxPending == 2
\* Most messages the user sends in one session of the renderer.
MaxSends == 3
\* A further turn is started only while the conversation holds fewer messages.
MaxStored == 3
\* The clock of the conversation store stops here.
MaxNow == 3
\* The store by itself appends to a conversation that holds fewer messages.
MaxKept == 2
\* runCode is called at most this many times.
MaxRuns == 2
\* addDocument is called at most this many times.
MaxDocs == 2
\* The knowledge base of KnowledgeBaseService stores at most this many chunks.
MaxChunks == 2

\* ------------------------------------------------------------- JS values
\* A segment of text.  k: "text" | "fence" | "tag" | "word" | "obj".
\*   text  : id "plain" | "sentinel" | "response" | "answer" | "content" | "args" | "user"
\*   fence : id "json" (```json) | "" (``` or ``` with another word tag)
\*   tag   : a control-token artifact <|...|>
\*   word  : an identifier, id its spelling
\*   obj   : a {...} block; valid: it is valid JSON; word: it contains "tool";
\*           key: it contains "tool" followed by a colon; the other fields are
\*           the parsed object's own fields when valid.
\* toolTy: "string" | "absent" | "number"; tool/tagged: the spelling of a string
\* tool name and whether it carries a <|...|> artifact.
\* args, response, answer, content: "absent" | "text" | "tagged" | "empty" | "object".
Seg(k, id) ==
    [k |-> k, id |-> id, valid |-> FALSE, word |-> FALSE, key |-> FALSE,
     toolTy |-> "absent", tool |-> "", tagged |-> FALSE,
     args |-> "absent", response |-> "absent", answer |-> "absent", content |-> "absent"]

Txt(id) == Seg("text", id)
Fence == Seg("fence", "")
FenceJson == Seg("fence", "json")
Tag == Seg("tag", "box")
Word(w) == Seg("word", w)

\* A JS value: a string (s its segments), undefined, or a non-string truthy
\* value (an object, a number, true).
Str(s) == [ty |-> "string", s |-> s]
Undefined == [ty |-> "undefined", s |-> <<>>]
NonString == [ty |-> "object", s |-> <<>>]

\* JS truthiness of a value.
Truthy(v) == \/ v.ty = "object"
             \/ v.ty = "string" /\ v.s # <<>>

\* a || b
Or(a, b) == IF Truthy(a) THEN a ELSE b

RECURSIVE FilterSegs(_, _)
FilterSegs(s, k) ==
    IF s = <<>> THEN <<>>
    ELSE IF Head(s).k = k THEN FilterSegs(Tail(s), k)
         ELSE <<Head(s)>> \o FilterSegs(Tail(s), k)

\* str.replace(/<\|.*?\|>/g, '').trim()
StripTags(s) == FilterSegs(s, "tag")


\* --------------------------------------------------------------- helpers
Min(S) == CHOOSE x \in S : \A y \in S : x <= y
Max(S) == CHOOSE x \in S : \A y \in S : x >= y

IsFence(t) == t.k = "fence"
IsObj(t) == t.k = "obj"

\* Position j ends an object whose closing brace is followed, after optional
\* whitespace, by a code fence: the tail  \}\s*```  of the fenced patterns.
ClosedAt(c, j) == j < Len(c) /\ IsObj(c[j]) /\ IsFence(c[j + 1])

\* The position of the last closing brace of the text (0: none).
LastObj(c) == LET S == {j \in 1..Len(c) : IsObj(c[j])} IN IF S = {} THEN 0 ELSE Max(S)

\* The result of String.match: found, and capture group 1.
NoMatch == [found |-> FALSE, cap |-> <<>>]
Match(c, i, j) == [found |-> TRUE, cap |-> SubSeq(c, i, j)]

\* ------------------------------------------------- tool-call extraction
\* 1.  /```json\s*(\{[\s\S]*?\})\s*```/
\* The leftmost ```json fence directly followed by an object; the capture runs
\* lazily to the first closing brace that a fence follows.
MatchJsonFence(c) ==
    LET starts == {i \in 1..Len(c) : /\ i < Len(c)
                                     /\ IsFence(c[i]) /\ c[i].id = "json"
                                     /\ IsObj(c[i + 1])
                                     /\ \E j \in (i + 1)..Len(c) : ClosedAt(c, j)}
    IN IF starts = {} THEN NoMatch
       ELSE LET i == Min(starts)
                j == Min({j \in (i + 1)..Len(c) : ClosedAt(c, j)})
            IN Match(c, i + 1, j)

\* 2.  /```\w*\s*(\{[\s\S]*"tool"[\s\S]*?\})\s*```/
\* Any fence directly followed by an object; the greedy part runs to the last
\* "tool" that still has a fence-closed brace after it, the lazy part from
\* there to the first such brace.
MatchAnyFence(c) ==
    LET tools(i) == {k \in (i + 1)..Len(c) : /\ IsObj(c[k]) /\ c[k].word
                                             /\ \E j \in k..Len(c) : ClosedAt(c, j)}
        starts == {i \in 1..Len(c) : /\ i < Len(c)
                                     /\ IsFence(c[i])
                                     /\ IsObj(c[i + 1])
                                     /\ tools(i) # {}}
    IN IF starts = {} THEN NoMatch
       ELSE LET i == Min(starts)
                k == Max(tools(i))
                j == Min({j \in k..Len(c) : ClosedAt(c, j)})
            IN Match(c, i + 1, j)

\* 3.  /```\w*\s*(\{[\s\S]*"tool"[\s\S]*\})/
\* An unclosed block: any fence directly followed by an object, a "tool"
\* after it, and greedily on to the last closing brace of the text.
MatchUnclosedFence(c) ==
    LET starts == {i \in 1..Len(c) : /\ i < Len(c)
                                     /\ IsFence(c[i])
                                     /\ IsObj(c[i + 1])
                                     /\ \E k \in (i + 1)..Len(c) : IsObj(c[k]) /\ c[k].word}
    IN IF starts = {} THEN NoMatch
       ELSE Match(c, Min(starts) + 1, LastObj(c))

\* 4.  /(\{[\s\S]*"tool"\s*:[\s\S]*\})/
\* Raw JSON in the text: the leftmost opening brace that has a "tool": key
\* after it, and greedily on to the last closing brace of the text.
MatchRawJson(c) ==
    LET starts == {i \in 1..Len(c) : /\ IsObj(c[i])
                                     /\ \E k \in i..Len(c) : IsObj(c[k]) /\ c[k].key}
    IN IF starts = {} THEN NoMatch
       ELSE Match(c, Min(starts), LastObj(c))

\* The cascade tried from the loosest pattern to the strictest.
jsonMatchLoosestFirst(c) ==
    LET m4 == MatchRawJson(c)
    IN IF m4.found THEN m4
       ELSE LET m3 == MatchUnclosedFence(c)
            IN IF m3.found THEN m3
               ELSE LET m2 == MatchAnyFence(c)
                    IN IF m2.found THEN m2 ELSE MatchJsonFence(c)

\* The cascade of aiAgent.ts:551-567: each pattern is tried only if the
\* previous ones did not match.
jsonMatch(c) ==
    LET m1 == MatchJsonFence(c)
    IN IF m1.found THEN m1
       ELSE LET m2 == MatchAnyFence(c)
            IN IF m2.found THEN m2
               ELSE LET m3 == MatchUnclosedFence(c)
                    IN IF m3.found THEN m3 ELSE MatchRawJson(c)

\* JSON.parse(jsonStr) succeeds: the capture is one object and it is valid
\* JSON.  (A capture spanning several segments is an object followed by other
\* text, which is not JSON.  The lastBrace trimming of lines 574-577 changes
\* nothing: every capture ends with a closing brace.)
JsonParses(cap) == Len(cap) = 1 /\ cap[1].valid


\* ------------------------------------------------- model output objects
\* A {...} block.  valid: JSON.parse accepts it.
Obj(valid, word, key, toolTy, tool, tagged, args, response, answer, content) ==
    [k |-> "obj", id |-> "", valid |-> valid, word |-> word, key |-> key,
     toolTy |-> toolTy, tool |-> tool, tagged |-> tagged,
     args |-> args, response |-> response, answer |-> answer, content |-> content]

\* {"tool": "<name>", "args": {...}}
ToolCall(name) ==
    Obj(TRUE, TRUE, TRUE, "string", name, FALSE, "object", "absent", "absent", "absent")

\* {"tool": read_file}: a "tool" key, but not JSON.
BadJsonCall == Obj(FALSE, TRUE, TRUE, "absent", "", FALSE, "absent", "absent", "absent", "absent")
\* {x: 1}: braces, no "tool", not JSON.
BadJsonOther == Obj(FALSE, FALSE, FALSE, "absent", "", FALSE, "absent", "absent", "absent", "absent")
\* {"a": 1}: JSON without a tool key.
PlainJson == Obj(TRUE, FALSE, FALSE, "absent", "", FALSE, "absent", "absent", "absent", "absent")
\* {"name": "tool"}: JSON that mentions "tool" but has no tool key.
WordOnlyJson == Obj(TRUE, TRUE, FALSE, "absent", "", FALSE, "absent", "absent", "absent", "absent")

\* The value of a field of the parsed object, from its code.
FieldVal(code, id) ==
    CASE code = "text" -> Str(<<Txt(id)>>)
      [] code = "tagged" -> Str(<<Tag, Txt(id)>>)
      [] code = "tagonly" -> Str(<<Tag>>)
      [] code = "empty" -> Str(<<>>)
      [] code = "object" -> NonString
      [] OTHER -> Undefined

\* toolCallData.tool
ToolField(d) ==
    CASE d.toolTy = "string" ->
           Str((IF d.tagged THEN <<Tag>> ELSE <<>>) \o
               (IF d.tool = "" THEN <<>> ELSE <<Word(d.tool)>>))
      [] d.toolTy = "number" -> NonString
      [] OTHER -> Undefined

\* A string literal that is one identifier.
Lit(w) == Str(<<Word(w)>>)


\* ------------------------------------------------------ the agent's tools
\* const tools = [readFileTool, createPlanTool, markStepCompletedTool]
tools == {"read_file", "create_plan", "mark_step_completed"}

\* The names the loop dispatches itself (the literal list of line 610).
SearchToolNames == {"search_pubmed", "search_web", "search_pubmed_full", "search_knowledge_base"}

\* AVAILABLE TOOLS of the agent's system prompt.
AdvertisedTools ==
    {"create_plan", "read_file", "mark_step_completed", "search_knowledge_base",
     "search_pubmed", "search_pubmed_full", "run_python", "generate_image"}

\* The names the loop takes for a final answer in disguise (line 589).
PseudoToolNames == {"null", "undefined", "respond", "answer", "final_answer", "response"}

\* if (toolName && typeof toolName === 'string') toolName = toolName.replace(...).trim()
NormalizeToolName(v) ==
    IF Truthy(v) /\ v.ty = "string" THEN Str(StripTags(v.s)) ELSE v

\* !toolName || toolName === 'null' || ... || toolName === 'response'
IsPseudoTool(toolName) ==
    \/ ~Truthy(toolName)
    \/ \E n \in PseudoToolNames : toolName = Lit(n)

\* The final answer taken from a pseudo-tool call d (lines 592-604).
PseudoToolResponse(d, toolArgs, content) ==
    LET payload == Or(Or(FieldVal(d.response, "response"), FieldVal(d.answer, "answer")),
                      FieldVal(d.content, "content"))
        picked == IF Truthy(payload) THEN payload
                  ELSE IF toolArgs.ty = "string" THEN toolArgs
                  ELSE Str(content)
    IN IF picked.ty = "string" THEN Str(StripTags(picked.s)) ELSE picked

\* isRealTool without the lookup in the tool list: any name passes.
isRealToolAnyName(toolName) == toolName.ty = "string"

\* tools.some(t => t.name === toolName) || [...].includes(toolName)
isRealTool(toolName) ==
    \E n \in tools \cup SearchToolNames : toolName = Lit(n)

\* What one pass of the loop body makes of the model's output (lines 549-707):
\* a final answer (break), or a tool to dispatch.
Final(v) == [kind |-> "final", finalResponse |-> v, toolName |-> ""]
DispatchOf(toolName) == [kind |-> "dispatch", finalResponse |-> Str(<<>>), toolName |-> toolName.s[1].id]

\* ParseOutput with a catch block that answers with the captured payload
\* (jsonStr) instead of the whole output.
ParseOutputAnswersPayload(content) ==
    LET m == jsonMatch(content)
    IN IF ~m.found THEN Final(Str(content))
       ELSE IF ~JsonParses(m.cap) THEN Final(Str(m.cap))
       ELSE LET toolCallData == m.cap[1]
                toolName == NormalizeToolName(ToolField(toolCallData))
                toolArgs == Or(FieldVal(toolCallData.args, "args"), NonString)
            IN IF IsPseudoTool(toolName)
                 THEN Final(PseudoToolResponse(toolCallData, toolArgs, content))
               ELSE IF ~isRealTool(toolName) THEN Final(Str(content))
               ELSE DispatchOf(toolName)

ParseOutput(content) ==
    LET m == jsonMatch(content)
    IN IF ~m.found THEN Final(Str(content))
       ELSE IF ~JsonParses(m.cap) THEN Final(Str(content))
       ELSE LET toolCallData == m.cap[1]
                toolName == NormalizeToolName(ToolField(toolCallData))
                toolArgs == Or(FieldVal(toolCallData.args, "args"), NonString)
            IN IF IsPseudoTool(toolName)
                 THEN Final(PseudoToolResponse(toolCallData, toolArgs, content))
               ELSE IF ~isRealTool(toolName) THEN Final(Str(content))
               ELSE DispatchOf(toolName)

\* The branch of the dispatch chain that runs a tool (lines 632-689).
ToolExecutor(toolName) ==
    CASE toolName \in {"search_pubmed", "search_web"} -> "searchPubMed"
      [] toolName = "search_pubmed_full" -> "searchPubMedFull"
      [] toolName = "search_knowledge_base" -> "knowledgeBase.search"
      [] toolName = "run_python" -> "pythonService.runCode"
      [] toolName = "generate_image" -> "generateImage"
      [] toolName \in tools -> toolName
      [] OTHER -> "Tool not found"


\* -------------------------------------------------------- program constants
\* const MAX_ITERATIONS = 15
MAX_ITERATIONS == 15

\* "I'm sorry, I couldn't complete the task within the iteration limit."
Apology == Str(<<Txt("apology")>>)

\* '[NEEDS_AGENT_CAPABILITIES]'
Sentinel == Txt("sentinel")

\* finalResponse.includes('[NEEDS_AGENT_CAPABILITIES]')
IncludesSentinel(content) == \E i \in 1..Len(content) : content[i] = Sentinel

\* ------------------------------------------------------ conversation store
\* currentConversationId = null
NoConversation == 0

NewConversation(title) == [title |-> title, messages |-> <<>>]

\* createConversation(): the id is Date.now(); Map.set stores the conversation
\* under it and it becomes the current one.  (saveConversations catches its
\* own write errors.)
createConversation(convs, now) ==
    [conversations |-> [i \in DOMAIN convs \cup {now} |->
                           IF i = now THEN NewConversation("New Conversation") ELSE convs[i]],
     currentConversationId |-> now,
     threw |-> FALSE]

\* addMessage(role, content, attachments)
addMessage(convs, cur, role, content, attachments, now) ==
    LET st == IF cur = NoConversation THEN createConversation(convs, now)
              ELSE [conversations |-> convs, currentConversationId |-> cur, threw |-> FALSE]
        id == st.currentConversationId
    IN IF id \notin DOMAIN st.conversations
         THEN [st EXCEPT !.threw = TRUE]
       ELSE LET conversation == st.conversations[id]
                pushed == Append(conversation.messages,
                                 [role |-> role, content |-> content, attachments |-> attachments])
                title == IF Len(pushed) = 1 /\ role = "user"
                            /\ conversation.title = "New Conversation"
                         THEN "Generating title..." ELSE conversation.title
            IN [st EXCEPT !.conversations[id] = [title |-> title, messages |-> pushed]]

\* updateConversationTitle(conversationId, title)
updateConversationTitle(convs, conversationId, title) ==
    IF conversationId \in DOMAIN convs
      THEN [convs EXCEPT ![conversationId].title = title]
    ELSE convs

\* getCurrentConversation() is non-null
HasCurrentConversation(convs, cur) == cur # NoConversation /\ cur \in DOMAIN convs

\* switchConversation(id): the new current conversation
switchConversation(convs, cur, id) == IF id \in DOMAIN convs THEN id ELSE cur

\* deleteConversation(id)
deleteConversation(convs, cur, id) ==
    IF id \in DOMAIN convs
      THEN [conversations |-> [i \in DOMAIN convs \ {id} |-> convs[i]],
            currentConversationId |-> IF cur = id THEN NoConversation ELSE cur]
    ELSE [conversations |-> convs, currentConversationId |-> cur]

\* getRecentMessages(limit): messages.slice(-limit) of the current conversation
\* (slice(-0) is slice(0): the whole list).
getRecentMessages(convs, cur, limit) ==
    IF ~HasCurrentConversation(convs, cur) THEN <<>>
    ELSE LET msgs == convs[cur].messages
         IN IF limit = 0 \/ limit >= Len(msgs) THEN msgs
            ELSE SubSeq(msgs, Len(msgs) - limit + 1, Len(msgs))


\* ------------------------------------------------------------------ state
VARIABLES
    \* ConversationManager
    conversations,          \* Map id -> conversation
    currentConversationId,  \* the current conversation's id, or NoConversation
    now,                    \* Date.now()
    \* globalConfig
    apiKey,                 \* config.apiKey is set
    \* one call of AIAgentService.chat (with its recursive call, if any)
    pc,                     \* "idle" | "gather" | "invoke" | "tool" | "observe" | "done"
                            \* | "rejected"
    mode,                   \* "chat" | "agent"
    escalated,              \* this is the recursive call made by chat mode
    attachments,            \* the attachments argument is a non-empty list
    isFirstMessage,
    titleConv,              \* currentConv.id as captured at line 305
    iterations,
    messages,               \* the message list handed to model.invoke, by kind
    lastContent,            \* content: the model output being handled
    toolName,               \* the tool being executed
    output,                 \* "" | "result" | "error" | "Tool not found": what the
                            \* dispatch chain left in output
    result,                 \* the value chat() resolved with
    error,                  \* "" | what chat() rejected with
    \* generateConversationTitle calls in flight (conversation ids)
    titleJobs,
    \* what the call has done so far
    chatInvocations,        \* model.invoke calls under the chat persona
    agentInvocations,       \* model.invoke calls of the agent loop
    dispatches,             \* tools executed
    kbSearches,             \* knowledgeBase.search calls of gatherContext
    titleStarts,            \* generateConversationTitle calls
    \* the renderer (SummaryTab)
    isSending,              \* useState(false)
    currentConversation,    \* useState<Conversation | null>(null)
    sends,                  \* the calls of handleSendMessage, in order: where each
                            \* stands, and the chat-send run it started
    \* the user turn being served
    turnAttachments,        \* the user sent it with at least one attachment
    \* ConversationManager, seen from its callers
    storeOp,                \* the last method called (history)
    \* PythonService
    pyRuns,                 \* the runCode calls made, in order
    \* MultiLayerKnowledgeBase
    documents,              \* Map layer -> KBDocument[]
    disk,                   \* the index.json of each layer
    kbNextId,               \* documents added so far, plus one
    kbLast,                 \* how the last method called ended (history)
    kbLayer,                \* the layer the last method called saved (history)
    \* KnowledgeBaseService and what it keeps on disk
    knowledgeBase,          \* this.documents, this.db, this.table
    storage,                \* documents.json
    lance,                  \* the 'documents' table of the LanceDB directory
    embeddingModel,         \* config.embeddingModel is set
    kbNextChunk,            \* chunks stored so far, plus one
    reindexRun,             \* where the running reindex() stands
    kbCall,                 \* the last call that ended, and how (history)
    \* DocumentWatcherService and the watched directory
    files,                  \* the supported files the watched directory holds
    watching,               \* watchedPaths has the directory
    handlers,               \* handleFileAdded/handleFileChanged calls at their await
    unlinked,               \* paths whose removal handleFileDeleted has handled (history)
    kbFate,                 \* uid -> "added" | "deleted" | "failed": how the last
                            \* addDocument/deleteDocument of the document ended (history)
    \* one call of FillingAgentService.processForm
    formCsv,                \* csvContent
    formPc,                 \* "idle" | "filling" | "resolved" | "rejected"
    formFields,             \* fields
    formNext,               \* the position in fields the loop has reached
    formResults,            \* results: its own properties, in insertion order
    formCalls               \* the fields generateFieldContent was called with (history)

storeVars == <<conversations, currentConversationId, now>>
chatVars == <<pc, mode, escalated, attachments, isFirstMessage, titleConv, iterations,
              messages, lastContent, toolName, output, result, error>>
countVars == <<chatInvocations, agentInvocations, dispatches, kbSearches, titleStarts>>
uiVars == <<isSending, currentConversation, sends>>
mlkbVars == <<documents, disk, kbNextId, kbLast, kbLayer>>
kbVars == <<knowledgeBase, storage, lance, embeddingModel, kbNextChunk, reindexRun, kbCall>>
watchVars == <<files, watching, handlers, unlinked, kbFate>>
formVars == <<formCsv, formPc, formFields, formNext, formResults, formCalls>>
svcVars == <<storeOp, pyRuns, mlkbVars, kbVars, watchVars, formVars>>
extVars == <<turnAttachments, svcVars>>
vars == <<storeVars, apiKey, chatVars, titleJobs, countVars, uiVars, extVars>>

UserMessage == <<Txt("user")>>

\* A Conversation | null as the renderer holds it.
Null == [isNull |-> TRUE, messages |-> <<>>]

\* getCurrentConversation()
getCurrentConversation(convs, cur) ==
    IF HasCurrentConversation(convs, cur)
      THEN [isNull |-> FALSE, messages |-> convs[cur].messages]
    ELSE Null

\* ------------------------------------------------ what the model may return
ShapeSegs == {Txt("plain"), FenceJson, Fence, ToolCall("read_file"), BadJsonCall}

\* Every output of at most MaxSegs segments (the empty output included).
ShapeOutputs == UNION {[1..n -> ShapeSegs] : n \in 0..MaxSegs}

\* {"tool": name, ...} with the fields a pseudo-tool call may carry:
\* <<args, response, answer, content>>.
PayloadShapes ==
    {<<"object", "absent", "absent", "absent">>,
     <<"absent", "text", "absent", "absent">>,
     <<"absent", "tagged", "absent", "absent">>,
     <<"absent", "tagonly", "absent", "absent">>,
     <<"absent", "object", "absent", "absent">>,
     <<"absent", "empty", "text", "absent">>,
     <<"absent", "absent", "absent", "text">>,
     <<"absent", "text", "text", "text">>,
     <<"object", "absent", "absent", "object">>,
     <<"text", "absent", "absent", "absent">>,
     <<"absent", "absent", "absent", "absent">>}

PseudoCalls ==
    {Obj(TRUE, TRUE, TRUE, "string", n, t, p[1], p[2], p[3], p[4]) :
        n \in PseudoToolNames \cup {""}, t \in {FALSE}, p \in PayloadShapes}
    \cup {Obj(TRUE, TRUE, TRUE, "string", "respond", TRUE, p[1], p[2], p[3], p[4]) :
            p \in PayloadShapes}

NamedCalls ==
    {ToolCall(n) : n \in AdvertisedTools \cup {"search_web", "unknown_tool"}}
    \cup {Obj(TRUE, TRUE, TRUE, "string", "read_file", TRUE, "object", "absent", "absent", "absent"),
          Obj(TRUE, TRUE, TRUE, "number", "", FALSE, "object", "absent", "absent", "absent"),
          PlainJson, WordOnlyJson, BadJsonOther}

\* A call as the system prompt asks for it (a ```json block), and the same
\* object bare in the text.
CallOutputs ==
    {<<FenceJson, o, Fence>> : o \in PseudoCalls \cup NamedCalls}
    \cup {<<o>> : o \in PseudoCalls \cup NamedCalls}

SentinelOutputs == {<<Sentinel>>, <<Txt("plain"), Sentinel>>}

ModelOutputs == ShapeOutputs \cup CallOutputs \cup SentinelOutputs


\* ------------------------------------------------- the services at start
\* enum KBLayer, in the order of Object.values(KBLayer) and of the Map's keys.
KBLayers == <<"core", "conversation", "generated">>
LayerSet == {KBLayers[i] : i \in 1..Len(KBLayers)}

\* A call record of KnowledgeBaseService: which method ended, whether it
\* returned or threw, what it returned, and what happened inside it.
NoCall ==
    [op |-> "", outcome |-> "", value |-> 0, success |-> FALSE, results |-> <<>>,
     query |-> <<>>, limit |-> 0, configured |-> FALSE, vector |-> "none",
     vectorRows |-> <<>>, writeFailed |-> FALSE, chunks |-> 0, tableBefore |-> <<>>]

NotRunning == [pc |-> "idle", index |-> 0, processed |-> 0, live |-> TRUE, docs |-> <<>>]

\* A first start: no documents.json, no LanceDB table, no embedding model.
InitKnowledgeBase ==
    /\ knowledgeBase = [documents |-> <<>>, db |-> FALSE, table |-> FALSE]
    /\ storage = <<>>
    /\ lance = [exists |-> FALSE, rows |-> <<>>]
    /\ embeddingModel = FALSE
    /\ kbNextChunk = 1
    /\ reindexRun = NotRunning
    /\ kbCall = NoCall

\* No runCode call made; the knowledge bases empty, in memory and on disk.
InitServices ==
    /\ storeOp = ""
    /\ pyRuns = <<>>
    /\ documents = [l \in LayerSet |-> <<>>]
    /\ disk = [l \in LayerSet |-> <<>>]
    /\ kbNextId = 1
    /\ kbLast = ""
    /\ kbLayer = ""
    /\ InitKnowledgeBase
    /\ files = {}
    /\ watching = FALSE
    /\ handlers = <<>>
    /\ unlinked = {}
    /\ kbFate = <<>>
    /\ formCsv = <<>>
    /\ formPc = "idle"
    /\ formFields = <<>>
    /\ formNext = 1
    /\ formResults = <<>>
    /\ formCalls = <<>>

\* ----------------------------------------------------------------- chat()
\* The conversation stores a turn may start from: a first launch (nothing
\* stored, no current conversation) and a current conversation that already
\* holds an exchange.
EarlierExchange ==
    <<[role |-> "user", content |-> UserMessage, attachments |-> FALSE],
      [role |-> "assistant", content |-> <<Txt("plain")>>, attachments |-> FALSE]>>

InitialStores ==
    {[conversations |-> <<>>, currentConversationId |-> NoConversation],
     [conversations |-> (1 :> [title |-> "Earlier title", messages |-> EarlierExchange]),
      currentConversationId |-> 1]}

Init ==
    /\ \E st \in InitialStores :
          /\ conversations = st.conversations
          /\ currentConversationId = st.currentConversationId
    /\ now = 2
    /\ apiKey \in BOOLEAN
    /\ pc = "idle"
    /\ mode = "agent"
    /\ escalated = FALSE
    /\ attachments = FALSE
    /\ isFirstMessage = FALSE
    /\ titleConv = NoConversation
    /\ iterations = 0
    /\ messages = <<>>
    /\ lastContent = <<>>
    /\ toolName = ""
    /\ output = ""
    /\ result = <<>>
    /\ error = ""
    /\ titleJobs = <<>>
    /\ chatInvocations = 0
    /\ agentInvocations = 0
    /\ dispatches = 0
    /\ kbSearches = 0
    /\ titleStarts = 0
    /\ isSending = FALSE
    /\ currentConversation = Null
    /\ sends = <<>>
    /\ turnAttachments = FALSE
    /\ InitServices

\* chat() up to its first await (lines 298-310): the user message is stored,
\* isFirstMessage and currentConv are taken, gatherContext is called.  Run by
\* a caller's chat() and by chat mode's recursive call.
Enter(md, att, esc) ==
    LET st == addMessage(conversations, currentConversationId, "user", UserMessage, att, now)
        cur == st.currentConversationId
    IN /\ conversations' = st.conversations
       /\ currentConversationId' = cur
       /\ now' = now
       /\ mode' = md
       /\ attachments' = att
       /\ escalated' = esc
       /\ isFirstMessage' = (~st.threw /\ Len(st.conversations[cur].messages) = 1)
       /\ titleConv' = IF st.threw THEN NoConversation ELSE cur
       /\ pc' = IF st.threw THEN "rejected" ELSE "gather"
       /\ error' = IF st.threw THEN "Current conversation not found" ELSE ""
       /\ iterations' = 0
       /\ messages' = <<>>
       /\ lastContent' = <<>>
       /\ toolName' = ""
       /\ output' = ""
       /\ result' = <<>>
       /\ titleJobs' = titleJobs
       /\ titleStarts' = titleStarts

\* chat(userMessage, attachments, onStep, mode)
ChatCall(md, att) ==
    /\ pc = "idle"
    /\ Enter(md, att, FALSE)
    /\ turnAttachments' = att
    /\ UNCHANGED <<apiKey, chatInvocations, agentInvocations, dispatches, kbSearches, uiVars,
                   svcVars>>

\* The kinds of the history messages: every recent message but the last,
\* those with empty content left out (lines 317-342).
RECURSIVE HistoryKinds(_)
HistoryKinds(msgs) ==
    IF msgs = <<>> THEN <<>>
    ELSE (IF Head(msgs).content # <<>> THEN <<Head(msgs).role>> ELSE <<>>)
         \o HistoryKinds(Tail(msgs))

historyMessages ==
    LET recentMessages == getRecentMessages(conversations, currentConversationId, 20)
    IN IF recentMessages = <<>> THEN <<>>
       ELSE HistoryKinds(SubSeq(recentMessages, 1, Len(recentMessages) - 1))

\* gatherContext searches the knowledge base unless skipKBSearch.
skipKBSearch == attachments

\* gatherContext, getModel and the building of the message list (lines
\* 308-343, 413-422, 516-537), up to the first model.invoke.
GatherContext ==
    /\ pc = "gather"
    /\ kbSearches' = IF skipKBSearch THEN kbSearches ELSE kbSearches + 1
    /\ IF ~apiKey
         THEN /\ pc' = "rejected"
              /\ error' = "API Key not set"
              /\ messages' = messages
       ELSE /\ pc' = "invoke"
            /\ error' = error
            /\ messages' = <<"system">> \o historyMessages \o <<"human">>
    /\ UNCHANGED <<storeVars, apiKey, mode, escalated, attachments, isFirstMessage, titleConv,
                   iterations, lastContent, toolName, output, result, titleJobs,
                   chatInvocations, agentInvocations, dispatches, titleStarts, uiVars, extVars>>

\* The end of a successful call: the assistant message is stored, the title
\* generation is started for a first message, the call resolves (lines
\* 438-441 and 717-730).  backgroundUpdateSummary returns at once for a
\* conversation of fewer than 20 messages.
Persist(finalResponse) ==
    LET st == addMessage(conversations, currentConversationId, "assistant", finalResponse,
                         FALSE, now)
        startTitle == ~st.threw /\ isFirstMessage /\ titleConv # NoConversation
    IN /\ conversations' = st.conversations
       /\ currentConversationId' = st.currentConversationId
       /\ now' = now
       /\ pc' = IF st.threw THEN "rejected" ELSE "done"
       /\ error' = IF st.threw THEN "Current conversation not found" ELSE ""
       /\ result' = IF st.threw THEN <<>> ELSE finalResponse
       /\ titleJobs' = IF startTitle THEN Append(titleJobs, titleConv) ELSE titleJobs
       /\ titleStarts' = IF startTitle THEN titleStarts + 1 ELSE titleStarts

\* AfterLoop without the test of iterations: the apology for any empty answer.
AfterLoopAnyEmpty(finalResponse, iters) ==
    LET answer == IF ~Truthy(finalResponse) THEN Apology ELSE finalResponse
    IN IF answer.ty # "string"
         THEN /\ pc' = "rejected"
              /\ error' = "TypeError: finalResponse.substring is not a function"
              /\ result' = result
              /\ UNCHANGED <<storeVars, titleJobs, titleStarts>>
       ELSE Persist(answer.s)

\* After the loop (lines 711-730): the apology when the loop ran out, then
\* finalResponse.substring(0, 100), which only a string has.
AfterLoop(finalResponse, iters) ==
    LET answer == IF ~Truthy(finalResponse) /\ iters >= MAX_ITERATIONS
                  THEN Apology ELSE finalResponse
    IN IF answer.ty # "string"
         THEN /\ pc' = "rejected"
              /\ error' = "TypeError: finalResponse.substring is not a function"
              /\ result' = result
              /\ UNCHANGED <<storeVars, titleJobs, titleStarts>>
       ELSE Persist(answer.s)


\* ParseOutput of every output the model may return.
ParsedOutputs == [content \in ModelOutputs |-> ParseOutput(content)]

\* ChatModeResponds without the sentinel test: every output is the answer.
ChatModeRespondsNoEscalation(content) ==
    /\ Persist(content)
    /\ lastContent' = content
    /\ UNCHANGED <<mode, escalated, attachments, isFirstMessage, titleConv,
                   iterations, messages, toolName, output>>

\* model.invoke resolves with content in chat mode (lines 426-441): the
\* sentinel makes chat() return what a call of itself in agent mode returns,
\* anything else is the answer.
ChatModeResponds(content) ==
    IF IncludesSentinel(content)
      THEN Enter("agent", attachments, TRUE)
    ELSE /\ Persist(content)
         /\ lastContent' = content
         /\ UNCHANGED <<mode, escalated, attachments, isFirstMessage, titleConv,
                        iterations, messages, toolName, output>>

\* AgentModeResponds with the push after the parse: only an output that
\* dispatches a tool is pushed to the message list.
AgentModeRespondsPushesCalls(content) ==
    LET out == ParsedOutputs[content]
    IN /\ messages' = IF out.kind = "dispatch" THEN Append(messages, "ai") ELSE messages
       /\ lastContent' = content
       /\ IF out.kind = "dispatch"
            THEN /\ pc' = "tool"
                 /\ toolName' = out.toolName
                 /\ dispatches' = dispatches + 1
                 /\ UNCHANGED <<storeVars, result, error, titleJobs, titleStarts>>
          ELSE /\ AfterLoop(out.finalResponse, iterations)
               /\ toolName' = toolName
               /\ dispatches' = dispatches
       /\ UNCHANGED <<mode, escalated, attachments, isFirstMessage, titleConv,
                      iterations, output>>

\* model.invoke resolves with content in the agent loop (lines 545-707): the
\* output is pushed to the message list and parsed; a tool is dispatched or
\* the loop is left.
AgentModeResponds(content) ==
    LET out == ParsedOutputs[content]
    IN /\ messages' = Append(messages, "ai")
       /\ lastContent' = content
       /\ IF out.kind = "dispatch"
            THEN /\ pc' = "tool"
                 /\ toolName' = out.toolName
                 /\ dispatches' = dispatches + 1
                 /\ UNCHANGED <<storeVars, result, error, titleJobs, titleStarts>>
          ELSE /\ AfterLoop(out.finalResponse, iterations)
               /\ toolName' = toolName
               /\ dispatches' = dispatches
       /\ UNCHANGED <<mode, escalated, attachments, isFirstMessage, titleConv,
                      iterations, output>>

ModelResponds(content) ==
    /\ pc = "invoke"
    /\ IF mode = "chat"
         THEN /\ chatInvocations' = chatInvocations + 1
              /\ agentInvocations' = agentInvocations
              /\ dispatches' = dispatches
              /\ ChatModeResponds(content)
       ELSE /\ agentInvocations' = agentInvocations + 1
            /\ chatInvocations' = chatInvocations
            /\ AgentModeResponds(content)
    /\ UNCHANGED <<apiKey, kbSearches, uiVars, extVars>>

\* ModelFails with a retry: the failed invocation is attempted again.
ModelFailsRetries ==
    /\ pc = "invoke"
    /\ pc' = "invoke"
    /\ error' = "model invocation failed"
    /\ chatInvocations' = IF mode = "chat" THEN chatInvocations + 1 ELSE chatInvocations
    /\ agentInvocations' = IF mode = "agent" THEN agentInvocations + 1 ELSE agentInvocations
    /\ UNCHANGED <<storeVars, apiKey, mode, escalated, attachments, isFirstMessage, titleConv,
                   iterations, messages, lastContent, toolName, output, result,
                   titleJobs, dispatches, kbSearches, titleStarts, uiVars, extVars>>

\* model.invoke rejects: nothing catches it before chat()'s own catch, which
\* rethrows (lines 426, 545, 731-734).
ModelFails ==
    /\ pc = "invoke"
    /\ pc' = "rejected"
    /\ error' = "model invocation failed"
    /\ chatInvocations' = IF mode = "chat" THEN chatInvocations + 1 ELSE chatInvocations
    /\ agentInvocations' = IF mode = "agent" THEN agentInvocations + 1 ELSE agentInvocations
    /\ UNCHANGED <<storeVars, apiKey, mode, escalated, attachments, isFirstMessage, titleConv,
                   iterations, messages, lastContent, toolName, output, result,
                   titleJobs, dispatches, kbSearches, titleStarts, uiVars, extVars>>

\* ToolSettles without the try/catch around the tool: what it throws
\* reaches chat()'s own catch.
ToolSettlesRethrows(threw) ==
    /\ pc = "tool"
    /\ pc' = IF threw THEN "rejected" ELSE "observe"
    /\ error' = IF threw THEN "tool failed" ELSE error
    /\ output' = IF threw THEN output ELSE "result"
    /\ lastContent' = <<>>
    /\ UNCHANGED <<storeVars, apiKey, mode, escalated, attachments, isFirstMessage, titleConv,
                   iterations, messages, toolName, result, titleJobs, countVars,
                   uiVars, extVars>>

\* The dispatched tool settles (lines 632-689): its result, or the message
\* its catch block makes of what it threw, is left in output.
ToolSettles(threw) ==
    /\ pc = "tool"
    /\ pc' = "observe"
    /\ output' = IF ToolExecutor(toolName) = "Tool not found" THEN "Tool not found"
                 ELSE IF threw THEN "error" ELSE "result"
    /\ lastContent' = <<>>
    /\ UNCHANGED <<storeVars, apiKey, mode, escalated, attachments, isFirstMessage, titleConv,
                   iterations, messages, toolName, result, error, titleJobs, countVars,
                   uiVars, extVars>>

\* The output is pushed to the message list as an observation, iterations is
\* incremented and the loop condition is tested (lines 691-709).
AppendObservation ==
    /\ pc = "observe"
    /\ messages' = Append(messages, "observation")
    /\ iterations' = iterations + 1
    /\ toolName' = ""
    /\ output' = ""
    /\ IF iterations + 1 < MAX_ITERATIONS
         THEN /\ pc' = "invoke"
              /\ UNCHANGED <<storeVars, result, error, titleJobs, titleStarts>>
       ELSE AfterLoop(Str(<<>>), iterations + 1)
    /\ UNCHANGED <<apiKey, mode, escalated, attachments, isFirstMessage, titleConv, lastContent,
                   chatInvocations, agentInvocations, dispatches, kbSearches, uiVars, extVars>>

\* generateConversationTitle settles: with the model's title, or with the
\* fallback title of its catch block (lines 738-768).
TitleFinishes(i, title) ==
    /\ i \in 1..Len(titleJobs)
    /\ conversations' = updateConversationTitle(conversations, titleJobs[i], title)
    /\ titleJobs' = SubSeq(titleJobs, 1, i - 1) \o SubSeq(titleJobs, i + 1, Len(titleJobs))
    /\ UNCHANGED <<currentConversationId, now, apiKey, chatVars, countVars, uiVars, extVars>>

Next ==
    \/ \E md \in {"chat", "agent"}, att \in BOOLEAN : ChatCall(md, att)
    \/ GatherContext
    \/ \E content \in ModelOutputs : ModelResponds(content)
    \/ ModelFails
    \/ \E threw \in BOOLEAN : ToolSettles(threw)
    \/ AppendObservation

Spec == Init /\ [][Next]_vars


\* ------------------------------------------------- turns, one after another
\* ipcMain.handle('chat-send'): whatever options.attachments holds, the
\* handler calls aiAgent.chat(message, undefined, onStep, mode) (main.ts
\* 142-155).
ChatSend(md, optAttachments) ==
    /\ pc = "idle"
    /\ Enter(md, FALSE, FALSE)
    /\ turnAttachments' = optAttachments
    /\ UNCHANGED <<apiKey, chatInvocations, agentInvocations, dispatches, kbSearches, uiVars,
                   svcVars>>

\* The messages stored in the current conversation.
Stored ==
    IF HasCurrentConversation(conversations, currentConversationId)
      THEN conversations[currentConversationId].messages
    ELSE <<>>

\* chat() has settled and its caller goes on; what the call did is forgotten.
Return ==
    /\ pc \in {"done", "rejected"}
    /\ Len(Stored) < MaxStored
    /\ pc' = "idle"
    /\ mode' = "agent"
    /\ escalated' = FALSE
    /\ attachments' = FALSE
    /\ turnAttachments' = FALSE
    /\ isFirstMessage' = FALSE
    /\ titleConv' = NoConversation
    /\ iterations' = 0
    /\ messages' = <<>>
    /\ lastContent' = <<>>
    /\ result' = <<>>
    /\ error' = ""
    /\ chatInvocations' = 0
    /\ agentInvocations' = 0
    /\ dispatches' = 0
    /\ kbSearches' = 0
    /\ UNCHANGED <<storeVars, apiKey, toolName, output, titleJobs, titleStarts, uiVars, svcVars>>

\* What the model returns in these turns: an answer, the sentinel, a call.
TurnOutputs == {<<Txt("plain")>>, <<Sentinel>>, <<FenceJson, ToolCall("read_file"), Fence>>}

\* The titles generateConversationTitle may set: the model's, the fallback.
Titles == {"Generated title", "Fallback title"}

\* A new conversation: none stored yet (addMessage will create it), or one
\* just created by conversation-new.
InitTurns ==
    /\ \E st \in {[conversations |-> <<>>, currentConversationId |-> NoConversation],
                  [conversations |-> (1 :> NewConversation("New Conversation")),
                   currentConversationId |-> 1]} :
          /\ conversations = st.conversations
          /\ currentConversationId = st.currentConversationId
    /\ now = 2
    /\ apiKey \in BOOLEAN
    /\ pc = "idle"
    /\ mode = "agent"
    /\ escalated = FALSE
    /\ attachments = FALSE
    /\ isFirstMessage = FALSE
    /\ titleConv = NoConversation
    /\ iterations = 0
    /\ messages = <<>>
    /\ lastContent = <<>>
    /\ toolName = ""
    /\ output = ""
    /\ result = <<>>
    /\ error = ""
    /\ titleJobs = <<>>
    /\ chatInvocations = 0
    /\ agentInvocations = 0
    /\ dispatches = 0
    /\ kbSearches = 0
    /\ titleStarts = 0
    /\ isSending = FALSE
    /\ currentConversation = Null
    /\ sends = <<>>
    /\ turnAttachments = FALSE
    /\ InitServices

NextTurns ==
    \/ \E md \in {"chat", "agent"}, att \in BOOLEAN : ChatCall(md, att)
    \/ \E md \in {"chat", "agent"}, att \in BOOLEAN : ChatSend(md, att)
    \/ GatherContext
    \/ \E content \in TurnOutputs : ModelResponds(content)
    \/ ModelFails
    \/ \E threw \in BOOLEAN : ToolSettles(threw)
    \/ AppendObservation
    \/ \E i \in 1..MaxStored, title \in Titles : TitleFinishes(i, title)
    \/ Return

\* generateConversationTitle always settles: its model call resolves or
\* rejects, and either way a title is set.
SpecTurns == InitTurns /\ [][NextTurns]_vars /\ WF_vars(\E i \in 1..MaxStored, title \in Titles : TitleFinishes(i, title))

\* ----------------------------------------- the conversation store by itself
\* The state the constructor leaves: the conversations of conversations.json
\* (none, or one of an earlier session) and no current conversation.
InitStore ==
    /\ \E convs \in {<<>>, (1 :> [title |-> "Earlier title", messages |-> EarlierExchange])} :
          conversations = convs
    /\ currentConversationId = NoConversation
    /\ now = 2
    /\ apiKey = TRUE
    /\ pc = "idle"
    /\ mode = "agent"
    /\ escalated = FALSE
    /\ attachments = FALSE
    /\ isFirstMessage = FALSE
    /\ titleConv = NoConversation
    /\ iterations = 0
    /\ messages = <<>>
    /\ lastContent = <<>>
    /\ toolName = ""
    /\ output = ""
    /\ result = <<>>
    /\ error = ""
    /\ titleJobs = <<>>
    /\ chatInvocations = 0
    /\ agentInvocations = 0
    /\ dispatches = 0
    /\ kbSearches = 0
    /\ titleStarts = 0
    /\ isSending = FALSE
    /\ currentConversation = Null
    /\ sends = <<>>
    /\ turnAttachments = FALSE
    /\ InitServices

\* What a step of the store leaves alone.
StoreFrame ==
    UNCHANGED <<apiKey, chatVars, titleJobs, countVars, uiVars, turnAttachments,
                pyRuns, mlkbVars, kbVars, watchVars, formVars>>

\* Date.now() moves on.
Tick ==
    /\ now < MaxNow
    /\ now' = now + 1
    /\ UNCHANGED <<conversations, currentConversationId, storeOp>>
    /\ StoreFrame

CreateConversation ==
    /\ LET st == createConversation(conversations, now)
       IN /\ conversations' = st.conversations
          /\ currentConversationId' = st.currentConversationId
    /\ storeOp' = "createConversation"
    /\ now' = now
    /\ StoreFrame

AddMessage(role, content) ==
    /\ Len(Stored) < MaxKept
    /\ LET st == addMessage(conversations, currentConversationId, role, content, FALSE, now)
       IN /\ conversations' = st.conversations
          /\ currentConversationId' = st.currentConversationId
    /\ storeOp' = "addMessage"
    /\ now' = now
    /\ StoreFrame

UpdateConversationTitle(id, title) ==
    /\ conversations' = updateConversationTitle(conversations, id, title)
    /\ storeOp' = "updateConversationTitle"
    /\ UNCHANGED <<currentConversationId, now>>
    /\ StoreFrame

SwitchConversation(id) ==
    /\ currentConversationId' = switchConversation(conversations, currentConversationId, id)
    /\ storeOp' = "switchConversation"
    /\ UNCHANGED <<conversations, now>>
    /\ StoreFrame

DeleteConversation(id) ==
    /\ LET st == deleteConversation(conversations, currentConversationId, id)
       IN /\ conversations' = st.conversations
          /\ currentConversationId' = st.currentConversationId
    /\ storeOp' = "deleteConversation"
    /\ now' = now
    /\ StoreFrame

NextStore ==
    \/ Tick
    \/ CreateConversation
    \/ AddMessage("user", UserMessage)
    \/ AddMessage("assistant", <<Txt("plain")>>)
    \/ \E id \in 1..MaxNow : UpdateConversationTitle(id, "Generated title")
    \/ \E id \in 1..MaxNow : SwitchConversation(id)
    \/ \E id \in 1..MaxNow : DeleteConversation(id)

SpecStore == InitStore /\ [][NextStore]_vars

\* ------------------------------------------------------------ runCode()
\* Everything but the services, at rest.
InitQuiet ==
    /\ conversations = <<>>
    /\ currentConversationId = NoConversation
    /\ now = 2
    /\ apiKey = TRUE
    /\ pc = "idle"
    /\ mode = "agent"
    /\ escalated = FALSE
    /\ attachments = FALSE
    /\ isFirstMessage = FALSE
    /\ titleConv = NoConversation
    /\ iterations = 0
    /\ messages = <<>>
    /\ lastContent = <<>>
    /\ toolName = ""
    /\ output = ""
    /\ result = <<>>
    /\ error = ""
    /\ titleJobs = <<>>
    /\ chatInvocations = 0
    /\ agentInvocations = 0
    /\ dispatches = 0
    /\ kbSearches = 0
    /\ titleStarts = 0
    /\ isSending = FALSE
    /\ currentConversation = Null
    /\ sends = <<>>
    /\ turnAttachments = FALSE

InitPython == InitQuiet /\ InitServices

PythonFrame ==
    UNCHANGED <<storeVars, apiKey, chatVars, titleJobs, countVars, uiVars, turnAttachments,
                storeOp, mlkbVars, kbVars, watchVars, formVars>>

Pending == "pending"
TimedOut == "Execution timed out after 10 seconds."

\* A promise takes the first settlement only; this one takes the last.
resolveOverwrites(run, value) == [run EXCEPT !.outcome = value]

\* resolve(value) and reject(error) of the promise runCode returns
resolve(run, value) == IF run.outcome = Pending THEN [run EXCEPT !.outcome = value] ELSE run

reject(run, err) == IF run.outcome = Pending THEN [run EXCEPT !.outcome = err] ELSE run

\* The 'close' handler.  stdout and stderr say whether the stream has text.
OnClose(run, code) ==
    IF code # "0"
      THEN resolve(run, IF run.stderr THEN "Execution failed (Exit code " \o code \o "): stderr"
                                     ELSE "Execution failed (Exit code " \o code \o "): ")
    ELSE resolve(run, IF run.stdout THEN "stdout"
                      ELSE IF run.stderr THEN "stderr" ELSE "[No output]")

\* The 'error' handler.
OnError(run) == reject(run, "Error: Failed to start Python process")

\* runCode(code): the subprocess is spawned, the handlers are set and the
\* timer is armed; or spawn throws inside the executor (an argument it does
\* not take), which rejects the promise before any handler or timer exists.
RunCode(spawnThrows) ==
    /\ Len(pyRuns) < MaxRuns
    /\ pyRuns' = Append(pyRuns,
          IF spawnThrows
            THEN [proc |-> "none", stdout |-> FALSE, stderr |-> FALSE,
                  outcome |-> "TypeError", timer |-> "none", killed |-> FALSE]
          ELSE [proc |-> "started", stdout |-> FALSE, stderr |-> FALSE,
                outcome |-> Pending, timer |-> "armed", killed |-> FALSE])
    /\ PythonFrame

\* The interpreter is not found: the subprocess emits 'error' and, having no
\* pid and no streams to wait for, 'close' in the same tick.
SpawnFails(i) ==
    /\ i \in DOMAIN pyRuns
    /\ pyRuns[i].proc = "started"
    /\ ~pyRuns[i].stdout /\ ~pyRuns[i].stderr /\ pyRuns[i].timer = "armed"
    /\ pyRuns' = [pyRuns EXCEPT ![i] = OnClose(OnError([@ EXCEPT !.proc = "closed"]), "-2")]
    /\ PythonFrame

StdoutData(i) ==
    /\ i \in DOMAIN pyRuns
    /\ pyRuns[i].proc = "started"
    /\ ~pyRuns[i].stdout
    /\ pyRuns' = [pyRuns EXCEPT ![i].stdout = TRUE]
    /\ PythonFrame

StderrData(i) ==
    /\ i \in DOMAIN pyRuns
    /\ pyRuns[i].proc = "started"
    /\ ~pyRuns[i].stderr
    /\ pyRuns' = [pyRuns EXCEPT ![i].stderr = TRUE]
    /\ PythonFrame

\* The subprocess ends: by itself with an exit code, or by the signal of
\* kill(), in which case the code handed to the handler is null.
ProcessCloses(i, code) ==
    /\ i \in DOMAIN pyRuns
    /\ pyRuns[i].proc = "started"
    /\ code = "null" => pyRuns[i].killed
    /\ pyRuns' = [pyRuns EXCEPT ![i] = OnClose([@ EXCEPT !.proc = "closed"], code)]
    /\ PythonFrame

\* The timer set at the end of the executor; it is never cleared.
TimerFires(i) ==
    /\ i \in DOMAIN pyRuns
    /\ pyRuns[i].timer = "armed"
    /\ pyRuns' = [pyRuns EXCEPT ![i] =
                    resolve([@ EXCEPT !.timer = "fired",
                                      !.killed = (pyRuns[i].proc = "started")], TimedOut)]
    /\ PythonFrame

NextPython ==
    \/ \E spawnThrows \in BOOLEAN : RunCode(spawnThrows)
    \/ \E i \in 1..MaxRuns : SpawnFails(i)
    \/ \E i \in 1..MaxRuns : StdoutData(i)
    \/ \E i \in 1..MaxRuns : StderrData(i)
    \/ \E i \in 1..MaxRuns, code \in {"0", "1", "null"} : ProcessCloses(i, code)
    \/ \E i \in 1..MaxRuns : TimerFires(i)

\* A timer that was set fires.
SpecPython ==
    InitPython /\ [][NextPython]_vars /\ \A i \in 1..MaxRuns : WF_vars(TimerFires(i))

\* ------------------------------------------- the multi-layer knowledge base
\* Text is a sequence of characters.
Lower(c) == CASE c = "T" -> "t" [] c = "A" -> "a" [] c = "X" -> "x" [] OTHER -> c

\* String.prototype.toLowerCase
ToLowerCase(text) == [i \in DOMAIN text |-> Lower(text[i])]

\* String.prototype.includes
Includes(text, part) ==
    \E i \in 0..(Len(text) - Len(part)) : SubSeq(text, i + 1, i + Len(part)) = part

\* The filter of search(): title, content or a tag holds the lowered query.
Matches(doc, queryLower) ==
    \/ Includes(ToLowerCase(doc.title), queryLower)
    \/ Includes(ToLowerCase(doc.content), queryLower)
    \/ \E t \in DOMAIN doc.tags : Includes(ToLowerCase(doc.tags[t]), queryLower)

\* layers.forEach(...) of search(), from the k-th requested layer on
RECURSIVE searchFrom(_, _, _, _)
searchFrom(docsMap, queryLower, layers, k) ==
    IF k > Len(layers) THEN <<>>
    ELSE SelectSeq(docsMap[layers[k]], LAMBDA doc : Matches(doc, queryLower))
            \o searchFrom(docsMap, queryLower, layers, k + 1)

DefaultLayers == <<"core", "generated", "conversation">>

\* A search that looks into every layer, whatever layers were asked for.
searchEveryLayer(docsMap, query, layers) ==
    searchFrom(docsMap, ToLowerCase(query), DefaultLayers, 1)

\* A search that visits the requested layers in the order of the map's keys.
searchInMapOrder(docsMap, query, layers) ==
    searchFrom(docsMap, ToLowerCase(query),
               SelectSeq(KBLayers, LAMBDA l : \E k \in DOMAIN layers : layers[k] = l), 1)

\* search(query, layers)
search(docsMap, query, layers) == searchFrom(docsMap, ToLowerCase(query), layers, 1)

\* getDocumentsByLayer(layer)
getDocumentsByLayer(docsMap, layer) == docsMap[layer]

\* A save that writes nothing.
saveLayerWritesNothing(diskMap, docsMap, layer, fails) == diskMap

\* loadLayer(layer): JSON.parse of the layer's file.  The fields of the
\* documents here are strings, numbers and arrays of strings, which
\* JSON.stringify and JSON.parse give back as they were.
loadLayer(diskMap, layer) == diskMap[layer]

\* saveLayer(layer): the layer's file gets the list, unless the write throws
saveLayer(diskMap, docsMap, layer, fails) ==
    IF fails THEN diskMap ELSE [diskMap EXCEPT ![layer] = docsMap[layer]]

\* {...doc, ...updates}: the fields updates has replace those of doc
Spread(doc, updates) ==
    [f \in DOMAIN doc |-> IF f \in DOMAIN updates THEN updates[f] ELSE doc[f]]

\* The first layer, in the order of the map's keys, that holds a document
\* with this id, and the document's index there (0 and 0 when there is none).
RECURSIVE FindFrom(_, _, _)
FindFrom(docsMap, id, k) ==
    IF k > Len(KBLayers) THEN [layer |-> "", index |-> 0]
    ELSE LET docs == docsMap[KBLayers[k]]
             hits == {i \in DOMAIN docs : docs[i].id = id}
         IN IF hits # {}
              THEN [layer |-> KBLayers[k],
                    index |-> CHOOSE i \in hits : \A j \in hits : i <= j]
            ELSE FindFrom(docsMap, id, k + 1)

\* docs.splice(index, 1) that takes the elements before index with it.
SpliceThrough(docs, index) == SubSeq(docs, index + 1, Len(docs))

\* docs.splice(index, 1)
Splice(docs, index) == SubSeq(docs, 1, index - 1) \o SubSeq(docs, index + 1, Len(docs))

\* What the callers hand to addDocument and to updateDocument.
TaxText == <<"T", "a", "x">>
TaxUpper == <<"T", "A", "X">>
NoteText == <<"n", "o", "t", "e">>
DocInputs ==
    {[title |-> TaxText, content |-> NoteText, tags |-> <<>>],
     [title |-> NoteText, content |-> NoteText, tags |-> <<TaxUpper>>]}
UpdateInputs == {[content |-> TaxUpper], [layer |-> "core"], [id |-> 1]}
Queries == {TaxText, <<>>, <<"z">>}

InitKB == InitQuiet /\ InitServices

\* A write is let fail only while the files hold what memory holds, which
\* keeps the number of failed writes in a row at one.
MayFail(fails) == fails => disk = documents

KBFrame ==
    UNCHANGED <<storeVars, apiKey, chatVars, titleJobs, countVars, uiVars, turnAttachments,
                storeOp, pyRuns, kbVars, watchVars, formVars>>

\* addDocument(layer, doc).  The id is new: the random part of the id is
\* taken never to repeat.  uid and origin are history: which addDocument call
\* made the document, and for which layer.
AddDocument(layer, doc, fails) ==
    /\ kbNextId <= MaxDocs
    /\ MayFail(fails)
    /\ LET fullDoc == [uid |-> kbNextId, origin |-> layer, id |-> kbNextId, layer |-> layer,
                       title |-> doc.title, content |-> doc.content, tags |-> doc.tags,
                       updatedAt |-> now]
       IN  documents' = [documents EXCEPT ![layer] = Append(@, fullDoc)]
    /\ disk' = saveLayer(disk, documents', layer, fails)
    /\ kbLast' = IF fails THEN "threw" ELSE "returned"
    /\ kbLayer' = layer
    /\ kbNextId' = kbNextId + 1
    /\ KBFrame

\* updateDocument(id, updates)
UpdateDocument(id, updates, fails) ==
    /\ MayFail(fails)
    /\ LET at == FindFrom(documents, id, 1)
       IN IF at.index = 0
            THEN /\ ~fails
                 /\ UNCHANGED <<documents, disk>>
                 /\ kbLast' = "returned"
                 /\ kbLayer' = ""
          ELSE /\ documents' = [documents EXCEPT ![at.layer][at.index] =
                                   [Spread(@, updates) EXCEPT !.updatedAt = now]]
               /\ disk' = saveLayer(disk, documents', at.layer, fails)
               /\ kbLast' = IF fails THEN "threw" ELSE "returned"
               /\ kbLayer' = at.layer
    /\ UNCHANGED kbNextId
    /\ KBFrame

\* deleteDocument(id)
DeleteDocument(id, fails) ==
    /\ MayFail(fails)
    /\ LET at == FindFrom(documents, id, 1)
       IN IF at.index = 0
            THEN /\ ~fails
                 /\ UNCHANGED <<documents, disk>>
                 /\ kbLast' = "returned"
                 /\ kbLayer' = ""
          ELSE /\ documents' = [documents EXCEPT ![at.layer] = Splice(@, at.index)]
               /\ disk' = saveLayer(disk, documents', at.layer, fails)
               /\ kbLast' = IF fails THEN "threw" ELSE "returned"
               /\ kbLayer' = at.layer
    /\ UNCHANGED kbNextId
    /\ KBFrame

\* clearLayer(layer)
ClearLayer(layer, fails) ==
    /\ MayFail(fails)
    /\ documents' = [documents EXCEPT ![layer] = <<>>]
    /\ disk' = saveLayer(disk, documents', layer, fails)
    /\ kbLast' = IF fails THEN "threw" ELSE "returned"
    /\ kbLayer' = layer
    /\ UNCHANGED kbNextId
    /\ KBFrame

NextKB ==
    \/ \E layer \in LayerSet, doc \in DocInputs, fails \in BOOLEAN : AddDocument(layer, doc, fails)
    \/ \E id \in 1..MaxDocs, updates \in UpdateInputs, fails \in BOOLEAN :
          UpdateDocument(id, updates, fails)
    \/ \E id \in 1..MaxDocs, fails \in BOOLEAN : DeleteDocument(id, fails)
    \/ \E layer \in LayerSet, fails \in BOOLEAN : ClearLayer(layer, fails)

SpecKB == InitKB /\ [][NextKB]_vars

\* --------------------------------------------------- KnowledgeBaseService
\* The outcome of a keyword search or of a vector query, one per document:
\* text and metadata, and the score where keywordSearch made it.
ResultOf(doc, score) ==
    [text |-> doc.text, source |-> doc.source, uid |-> doc.uid, score |-> score]

\* query.split(/\s+/): the runs of characters between blanks (and the empty
\* strings split makes at the ends, which the length filter drops anyway).
RECURSIVE Words(_, _)
Words(text, word) ==
    IF text = <<>> THEN (IF word = <<>> THEN <<>> ELSE <<word>>)
    ELSE IF Head(text) = " "
           THEN (IF word = <<>> THEN <<>> ELSE <<word>>) \o Words(Tail(text), <<>>)
    ELSE Words(Tail(text), Append(word, Head(text)))

\* queryLower.split(/\s+/).filter(k => k.length > 1)
Keywords(query) == SelectSeq(Words(ToLowerCase(query), <<>>), LAMBDA k : Len(k) > 1)

\* new RegExp(keyword, 'g') throws a SyntaxError: of the characters the model
\* writes keywords with, "+" is the one the pattern syntax reads, and it has
\* nothing to repeat at the start or after another "+".
InvalidRegExp(keyword) ==
    \E i \in DOMAIN keyword : keyword[i] = "+" /\ (i = 1 \/ keyword[i - 1] = "+")

\* (textLower.match(new RegExp(keyword, 'g')) || []).length for a keyword of
\* plain characters: its occurrences from the left, none overlapping.
RECURSIVE CountMatches(_, _, _)
CountMatches(text, keyword, from) ==
    IF from + Len(keyword) - 1 > Len(text) THEN 0
    ELSE IF SubSeq(text, from, from + Len(keyword) - 1) = keyword
           THEN 1 + CountMatches(text, keyword, from + Len(keyword))
    ELSE CountMatches(text, keyword, from + 1)

\* JSON.stringify(doc.metadata).toLowerCase(), as far as its letters go
MetadataStr(doc) == ToLowerCase(<<"s", "o", "u", "r", "c", "e", ":">> \o doc.source)

\* The score keywordSearch gives a document.
RECURSIVE ScoreFrom(_, _, _)
ScoreFrom(doc, keywords, k) ==
    IF k > Len(keywords) THEN 0
    ELSE CountMatches(ToLowerCase(doc.text), keywords[k], 1)
            + (IF Includes(MetadataStr(doc), keywords[k]) THEN 2 ELSE 0)
            + ScoreFrom(doc, keywords, k + 1)

\* .sort((a, b) => b.score - a.score): highest score first, equal scores in
\* the order they had.
RECURSIVE SortByScore(_)
SortByScore(items) ==
    IF items = <<>> THEN <<>>
    ELSE LET best == CHOOSE i \in DOMAIN items :
                        /\ \A j \in DOMAIN items : items[j].score <= items[i].score
                        /\ \A j \in 1..(i - 1) : items[j].score < items[i].score
         IN <<items[best]>> \o
                SortByScore(SubSeq(items, 1, best - 1) \o SubSeq(items, best + 1, Len(items)))

\* keywordSearch(query, limit)
keywordSearch(docs, query, limit) ==
    LET keywords == Keywords(query)
        scored == [i \in DOMAIN docs |-> ResultOf(docs[i], ScoreFrom(docs[i], keywords, 1))]
        sorted == SortByScore(SelectSeq(scored, LAMBDA item : item.score > 0))
    IN IF docs # <<>> /\ \E k \in DOMAIN keywords : InvalidRegExp(keywords[k])
         THEN [threw |-> TRUE, results |-> <<>>]
       ELSE [threw |-> FALSE,
             results |-> SubSeq(sorted, 1, IF limit < Len(sorted) THEN limit ELSE Len(sorted))]

\* this.documents.slice(-limit).map(...), for limit > 0
recentDocuments(docs, limit) ==
    LET n == IF limit < Len(docs) THEN limit ELSE Len(docs)
        last == SubSeq(docs, Len(docs) - n + 1, Len(docs))
    IN [i \in DOMAIN last |-> ResultOf(last[i], 0)]

\* initDB(): connects once; opens the table when there is one at that time.
initDB(kb, table) ==
    IF kb.db THEN kb ELSE [kb EXCEPT !.db = TRUE, !.table = table.exists]

\* addToVectorDB(docs, metadata).  It throws when the API key is missing, when
\* an embedding call fails, and when it creates a table that exists already.
addToVectorDB(kb, table, chunks, key, fails) ==
    LET kb1 == initDB(kb, table)
    IN IF ~key \/ fails \/ (~kb1.table /\ table.exists)
         THEN [threw |-> TRUE, kb |-> kb1, table |-> table]
       ELSE [threw |-> FALSE,
             kb |-> [kb1 EXCEPT !.table = TRUE],
             table |-> [exists |-> TRUE, rows |-> table.rows \o chunks]]

\* What the callers hand over: a text as the chunks the splitter makes of
\* it, the metadata's source, the queries and the limits.
CppText == <<"c", "+", "+">>
TaxLower == <<"t", "a", "x">>
TextInputs ==
    {[chunks |-> <<TaxText>>, source |-> <<"r">>],
     [chunks |-> <<NoteText>>, source |-> TaxLower],
     [chunks |-> <<CppText, TaxText>>, source |-> <<"r">>]}
QueryInputs == {TaxText, CppText, <<>>, <<"n", "o", "t", "e", " ", "z">>}
LimitInputs == {1, 5}

InitKnowledge == InitQuiet /\ InitServices

KnowledgeFrame ==
    UNCHANGED <<storeVars, chatVars, titleJobs, countVars, uiVars, turnAttachments,
                storeOp, pyRuns, mlkbVars, watchVars, formVars>>

\* The array the running reindex() loops over: this.documents, until
\* clearAllDocuments puts another array in its place.
IteratedDocs == IF reindexRun.live THEN knowledgeBase.documents ELSE reindexRun.docs

\* A write of documents.json is let fail only while the file holds what
\* memory holds.
StorageMayFail(writeFails) == writeFails => storage = knowledgeBase.documents

\* globalConfig.setConfig(config), for the embedding model.  The API key
\* stays set: without it getEmbeddings throws where a failing embedding call
\* throws, inside the same try blocks.
UpdateConfig(model) ==
    /\ model # embeddingModel
    /\ apiKey' = apiKey
    /\ embeddingModel' = model
    /\ UNCHANGED <<knowledgeBase, storage, lance, kbNextChunk, reindexRun, kbCall>>
    /\ KnowledgeFrame

\* addDocument(text, metadata)
KBAddDocument(input, writeFails, vectorFails) ==
    /\ kbNextChunk + Len(input.chunks) - 1 <= MaxChunks
    /\ StorageMayFail(writeFails)
    /\ vectorFails => (embeddingModel /\ apiKey)
    /\ LET docs == [i \in DOMAIN input.chunks |->
                      [text |-> input.chunks[i], source |-> input.source,
                       uid |-> kbNextChunk + i - 1]]
           kb1 == [knowledgeBase EXCEPT !.documents = @ \o docs]
           vec == addToVectorDB(kb1, lance, docs, apiKey, vectorFails)
       IN /\ storage' = IF writeFails THEN storage ELSE kb1.documents
          /\ IF embeddingModel
               THEN /\ knowledgeBase' = vec.kb
                    /\ lance' = vec.table
             ELSE /\ knowledgeBase' = kb1
                  /\ lance' = lance
          /\ kbCall' = [NoCall EXCEPT !.op = "addDocument", !.outcome = "returned",
                                      !.value = Len(docs), !.chunks = Len(docs),
                                      !.configured = embeddingModel,
                                      !.vector = IF ~embeddingModel THEN "none"
                                                 ELSE IF vec.threw THEN "failed" ELSE "ok",
                                      !.writeFailed = writeFails]
    /\ kbNextChunk' = kbNextChunk + Len(input.chunks)
    /\ UNCHANGED <<apiKey, embeddingModel, reindexRun>>
    /\ KnowledgeFrame

\* deleteDocument(index)
KBDeleteDocument(index, writeFails) ==
    /\ StorageMayFail(writeFails)
    /\ writeFails => index < Len(knowledgeBase.documents)
    /\ IF index >= 0 /\ index < Len(knowledgeBase.documents)
         THEN /\ knowledgeBase' = [knowledgeBase EXCEPT !.documents = Splice(@, index + 1)]
              /\ storage' = IF writeFails THEN storage ELSE knowledgeBase'.documents
              /\ kbCall' = [NoCall EXCEPT !.op = "deleteDocument", !.outcome = "returned",
                                          !.success = TRUE, !.writeFailed = writeFails]
       ELSE /\ UNCHANGED <<knowledgeBase, storage>>
            /\ kbCall' = [NoCall EXCEPT !.op = "deleteDocument", !.outcome = "returned"]
    /\ UNCHANGED <<apiKey, embeddingModel, lance, kbNextChunk, reindexRun>>
    /\ KnowledgeFrame

\* clearAllDocuments()
KBClearAllDocuments(writeFails) ==
    /\ StorageMayFail(writeFails)
    /\ knowledgeBase' = [knowledgeBase EXCEPT !.documents = <<>>]
    /\ storage' = IF writeFails THEN storage ELSE <<>>
    /\ reindexRun' = IF reindexRun.pc = "loop" /\ reindexRun.live
                       THEN [reindexRun EXCEPT !.live = FALSE, !.docs = knowledgeBase.documents]
                     ELSE reindexRun
    /\ kbCall' = [NoCall EXCEPT !.op = "clearAllDocuments", !.outcome = "returned",
                                !.success = TRUE, !.writeFailed = writeFails]
    /\ UNCHANGED <<apiKey, embeddingModel, lance, kbNextChunk>>
    /\ KnowledgeFrame

\* What a vector query can return: the nearest rows of the table first, as
\* many as limit allows.  Which rows are nearest is for the embedding model
\* to say; two of the orders are taken, the table's and its reverse.
VectorAnswers(rows, limit) ==
    LET n == IF limit < Len(rows) THEN limit ELSE Len(rows)
    IN {[k \in 1..n |-> ResultOf(rows[k], 0)],
        [k \in 1..n |-> ResultOf(rows[Len(rows) + 1 - k], 0)]}

\* search(query, limit)
KBSearch(query, limit, vectorFails) ==
    LET kb1 == IF embeddingModel THEN initDB(knowledgeBase, lance) ELSE knowledgeBase
        asked == embeddingModel /\ kb1.table
        failed == asked /\ (~apiKey \/ vectorFails)
        lexical == keywordSearch(knowledgeBase.documents, query, limit)
        call == [NoCall EXCEPT !.op = "search", !.query = query, !.limit = limit,
                               !.configured = embeddingModel,
                               !.vector = IF ~asked THEN "none"
                                          ELSE IF failed THEN "failed" ELSE "ok"]
    IN /\ vectorFails => (asked /\ apiKey)
       /\ knowledgeBase' = kb1
       /\ IF asked /\ ~failed
            THEN \E answer \in VectorAnswers(lance.rows, limit) :
                    kbCall' = [call EXCEPT !.outcome = "returned", !.results = answer,
                                           !.vectorRows = answer]
          ELSE kbCall' =
                    IF lexical.threw
                      THEN [call EXCEPT !.outcome = "threw"]
                    ELSE IF lexical.results = <<>>
                      THEN [call EXCEPT !.outcome = "returned",
                                        !.results = recentDocuments(knowledgeBase.documents, limit)]
                    ELSE [call EXCEPT !.outcome = "returned", !.results = lexical.results]
       /\ UNCHANGED <<apiKey, embeddingModel, storage, lance, kbNextChunk, reindexRun>>
       /\ KnowledgeFrame

\* reindex(), up to its loop: the configuration test, initDB, the drop of
\* the table (a failure of which is logged and passed over).
ReindexCall(dropFails) ==
    /\ reindexRun.pc = "idle"
    /\ dropFails => (embeddingModel /\ lance.exists)
    /\ IF ~embeddingModel
         THEN /\ kbCall' = [NoCall EXCEPT !.op = "reindex", !.outcome = "returned",
                                          !.tableBefore = lance.rows]
              /\ UNCHANGED <<knowledgeBase, lance, reindexRun>>
       ELSE /\ knowledgeBase' = [initDB(knowledgeBase, lance) EXCEPT !.table = FALSE]
            /\ lance' = IF dropFails THEN lance ELSE [exists |-> FALSE, rows |-> <<>>]
            /\ reindexRun' = [NotRunning EXCEPT !.pc = "loop", !.index = 1]
            /\ UNCHANGED kbCall
    /\ UNCHANGED <<apiKey, embeddingModel, storage, kbNextChunk>>
    /\ KnowledgeFrame

\* One round of the loop of reindex(): the next document of the array goes
\* to addToVectorDB; what that throws ends reindex() with success false.
ReindexStep(vectorFails) ==
    /\ reindexRun.pc = "loop"
    /\ reindexRun.index <= Len(IteratedDocs)
    /\ vectorFails => apiKey
    /\ LET vec == addToVectorDB(knowledgeBase, lance, <<IteratedDocs[reindexRun.index]>>,
                                apiKey, vectorFails)
       IN /\ knowledgeBase' = vec.kb
          /\ lance' = vec.table
          /\ IF vec.threw
               THEN /\ reindexRun' = NotRunning
                    /\ kbCall' = [NoCall EXCEPT !.op = "reindex", !.outcome = "returned",
                                                !.configured = TRUE, !.vector = "failed"]
             ELSE /\ reindexRun' = [reindexRun EXCEPT !.index = @ + 1, !.processed = @ + 1]
                  /\ UNCHANGED kbCall
    /\ UNCHANGED <<apiKey, embeddingModel, storage, kbNextChunk>>
    /\ KnowledgeFrame

\* The loop of reindex() is through: success, and the number processed.
ReindexReturns ==
    /\ reindexRun.pc = "loop"
    /\ reindexRun.index > Len(IteratedDocs)
    /\ reindexRun' = NotRunning
    /\ kbCall' = [NoCall EXCEPT !.op = "reindex", !.outcome = "returned", !.success = TRUE,
                                !.value = reindexRun.processed, !.configured = TRUE,
                                !.vector = "ok"]
    /\ UNCHANGED <<apiKey, embeddingModel, knowledgeBase, storage, lance, kbNextChunk>>
    /\ KnowledgeFrame

NextKnowledge ==
    \/ \E model \in BOOLEAN : UpdateConfig(model)
    \/ \E input \in TextInputs, writeFails \in BOOLEAN, vectorFails \in BOOLEAN :
          KBAddDocument(input, writeFails, vectorFails)
    \/ \E index \in 0..MaxChunks, writeFails \in BOOLEAN : KBDeleteDocument(index, writeFails)
    \/ \E writeFails \in BOOLEAN : KBClearAllDocuments(writeFails)
    \/ \E query \in QueryInputs, limit \in LimitInputs, vectorFails \in BOOLEAN :
          KBSearch(query, limit, vectorFails)
    \/ \E dropFails \in BOOLEAN : ReindexCall(dropFails)
    \/ \E vectorFails \in BOOLEAN : ReindexStep(vectorFails)
    \/ ReindexReturns

SpecKnowledge == InitKnowledge /\ [][NextKnowledge]_vars

\* ------------------------------------------------- the folder watcher
\* The supported files that come and go in the watched directory.
Paths == {"a.md", "b.md"}

InitWatcher == InitQuiet /\ InitServices

WatcherFrame ==
    UNCHANGED <<storeVars, apiKey, chatVars, titleJobs, countVars, uiVars, turnAttachments,
                storeOp, pyRuns, kbVars, formVars>>

\* docs.findIndex(d => d.metadata.source === filePath) + 1
FindSource(docs, filePath) ==
    LET hits == {i \in DOMAIN docs : docs[i].source = filePath}
    IN IF hits = {} THEN 0 ELSE Min(hits)

\* multiLayerKB.addDocument(KBLayer.CORE, {title, content, metadata: {source}})
\* as the watcher calls it.
addDocument(filePath, fails) ==
    /\ kbNextId <= MaxDocs
    /\ MayFail(fails)
    /\ LET fullDoc == [uid |-> kbNextId, origin |-> "core", id |-> kbNextId, layer |-> "core",
                       title |-> filePath, content |-> NoteText,
                       tags |-> <<"auto-indexed", "watched-folder">>,
                       updatedAt |-> now, source |-> filePath]
       IN documents' = [documents EXCEPT !["core"] = Append(@, fullDoc)]
    /\ disk' = saveLayer(disk, documents', "core", fails)
    /\ kbLast' = IF fails THEN "threw" ELSE "returned"
    /\ kbLayer' = "core"
    /\ kbNextId' = kbNextId + 1
    /\ kbFate' = Append(kbFate, IF fails THEN "failed" ELSE "added")

\* multiLayerKB.updateDocument(id, {content, metadata: {updatedAt}})
updateDocument(id, fails) ==
    /\ MayFail(fails)
    /\ LET at == FindFrom(documents, id, 1)
       IN IF at.index = 0
            THEN /\ ~fails
                 /\ UNCHANGED <<documents, disk>>
                 /\ kbLast' = "returned"
                 /\ kbLayer' = ""
          ELSE /\ documents' = [documents EXCEPT ![at.layer][at.index] =
                                   [Spread(@, [content |-> TaxUpper]) EXCEPT !.updatedAt = now]]
               /\ disk' = saveLayer(disk, documents', at.layer, fails)
               /\ kbLast' = IF fails THEN "threw" ELSE "returned"
               /\ kbLayer' = at.layer
    /\ UNCHANGED <<kbNextId, kbFate>>

\* multiLayerKB.deleteDocument(id)
deleteDocument(id, fails) ==
    /\ MayFail(fails)
    /\ LET at == FindFrom(documents, id, 1)
       IN IF at.index = 0
            THEN /\ ~fails
                 /\ UNCHANGED <<documents, disk, kbFate>>
                 /\ kbLast' = "returned"
                 /\ kbLayer' = ""
          ELSE /\ documents' = [documents EXCEPT ![at.layer] = Splice(@, at.index)]
               /\ disk' = saveLayer(disk, documents', at.layer, fails)
               /\ kbLast' = IF fails THEN "threw" ELSE "returned"
               /\ kbLayer' = at.layer
               /\ kbFate' = [kbFate EXCEPT ![documents[at.layer][at.index].uid] =
                                IF fails THEN "failed" ELSE "deleted"]
    /\ UNCHANGED kbNextId

\* handleFileAdded(filePath) up to its await of parseFile (lines 63-82).
\* Every path of Paths has a supported extension.
handleFileAdded(filePath) ==
    /\ Len(handlers) < MaxPending
    /\ handlers' = Append(handlers, [kind |-> "add", filePath |-> filePath, id |-> 0])

\* handleFileChanged(filePath) up to its await (lines 105-125).
handleFileChanged(filePath) ==
    LET docs == getDocumentsByLayer(documents, "core")
        existing == FindSource(docs, filePath)
    IN IF existing # 0
         THEN /\ Len(handlers) < MaxPending
              /\ handlers' = Append(handlers, [kind |-> "change", filePath |-> filePath,
                                               id |-> docs[existing].id])
       ELSE handleFileAdded(filePath)

\* handleFileDeleted(filePath) (lines 133-148); what deleteDocument throws
\* is caught and logged.
handleFileDeleted(filePath, fails) ==
    LET docs == getDocumentsByLayer(documents, "core")
        existing == FindSource(docs, filePath)
    IN IF existing # 0
         THEN deleteDocument(docs[existing].id, fails)
       ELSE /\ ~fails
            /\ UNCHANGED <<mlkbVars, kbFate>>

\* The 'add' events chokidar emits for the files a directory already holds
\* (ignoreInitial: false).
RECURSIVE InitialAdds(_)
InitialAdds(S) ==
    IF S = {} THEN <<>>
    ELSE LET filePath == CHOOSE x \in S : TRUE
         IN <<[kind |-> "add", filePath |-> filePath, id |-> 0]>> \o InitialAdds(S \ {filePath})

\* addWatchPath(dirPath)
AddWatchPath ==
    /\ ~watching
    /\ Len(handlers) + Cardinality(files) <= MaxPending
    /\ watching' = TRUE
    /\ handlers' = handlers \o InitialAdds(files)
    /\ UNCHANGED <<files, unlinked, kbFate, mlkbVars>>
    /\ WatcherFrame

\* removeWatchPath(dirPath): the watcher is closed; handlers already running
\* go on.
RemoveWatchPath ==
    /\ watching
    /\ watching' = FALSE
    /\ UNCHANGED <<files, handlers, unlinked, kbFate, mlkbVars>>
    /\ WatcherFrame

\* A file appears in the directory; a watcher emits 'add'.
FileCreated(filePath) ==
    /\ filePath \notin files
    /\ files' = files \cup {filePath}
    /\ unlinked' = unlinked \ {filePath}
    /\ IF watching THEN handleFileAdded(filePath) ELSE UNCHANGED handlers
    /\ UNCHANGED <<watching, kbFate, mlkbVars>>
    /\ WatcherFrame

\* A watched file is written; the watcher emits 'change'.
FileModified(filePath) ==
    /\ watching
    /\ filePath \in files
    /\ handleFileChanged(filePath)
    /\ UNCHANGED <<files, watching, unlinked, kbFate, mlkbVars>>
    /\ WatcherFrame

\* A file is removed; a watcher emits 'unlink'.
FileRemoved(filePath, fails) ==
    /\ filePath \in files
    /\ files' = files \ {filePath}
    /\ IF watching
         THEN /\ unlinked' = unlinked \cup {filePath}
              /\ handleFileDeleted(filePath, fails)
       ELSE /\ ~fails
            /\ UNCHANGED <<unlinked, mlkbVars, kbFate>>
    /\ UNCHANGED <<watching, handlers>>
    /\ WatcherFrame

\* parseFile settles in a suspended handler: it resolves, and the handler
\* adds or updates the document (lines 85-96, 116-121), or it rejects and the
\* handler logs the error.  A file removed meanwhile may have been read
\* before.
ParseSettles(i, ok, fails) ==
    /\ i \in DOMAIN handlers
    /\ handlers' = SubSeq(handlers, 1, i - 1) \o SubSeq(handlers, i + 1, Len(handlers))
    /\ IF ~ok
         THEN /\ ~fails
              /\ UNCHANGED <<mlkbVars, kbFate>>
       ELSE IF handlers[i].kind = "add"
         THEN addDocument(handlers[i].filePath, fails)
       ELSE updateDocument(handlers[i].id, fails)
    /\ UNCHANGED <<files, watching, unlinked>>
    /\ WatcherFrame

\* ipcMain.handle('mlkb-delete-document', id): another caller of the layer.
MlkbDeleteDocument(id, fails) ==
    /\ deleteDocument(id, fails)
    /\ UNCHANGED <<files, watching, handlers, unlinked>>
    /\ WatcherFrame

\* The application is restarted: the layers are loaded from their files, no
\* directory is watched, the suspended handlers are gone.
Restart ==
    /\ documents' = [l \in LayerSet |-> loadLayer(disk, l)]
    /\ watching' = FALSE
    /\ handlers' = <<>>
    /\ kbLast' = ""
    /\ kbLayer' = ""
    /\ UNCHANGED <<disk, kbNextId, files, unlinked, kbFate>>
    /\ WatcherFrame

NextWatcher ==
    \/ AddWatchPath
    \/ RemoveWatchPath
    \/ \E filePath \in Paths : FileCreated(filePath)
    \/ \E filePath \in Paths : FileModified(filePath)
    \/ \E filePath \in Paths, fails \in BOOLEAN : FileRemoved(filePath, fails)
    \/ \E i \in 1..MaxPending, ok \in BOOLEAN, fails \in BOOLEAN : ParseSettles(i, ok, fails)
    \/ \E id \in 1..MaxDocs, fails \in BOOLEAN : MlkbDeleteDocument(id, fails)
    \/ Restart

SpecWatcher == InitWatcher /\ [][NextWatcher]_vars

\* ------------------------------------------------------ the form filler
\* csvContent is a sequence of pieces: a word (a run of characters that are
\* neither whitespace nor a comma), a blank, a comma, a line feed.
Blank == " "
Comma == ","
LineFeed == "\n"
Proto == "__proto__"
CsvPieces == {"Name", "Email", Proto, Blank, Comma, LineFeed}
CsvInputs == UNION {[1..n -> CsvPieces] : n \in 0..MaxCsv}

\* str.split(sep)[0]: the text before the first sep
BeforeFirst(str, sep) ==
    LET at == {i \in DOMAIN str : str[i] = sep}
    IN IF at = {} THEN str ELSE SubSeq(str, 1, Min(at) - 1)

\* str.split(sep): a non-empty list of the texts between the seps
RECURSIVE Split(_, _)
Split(str, sep) ==
    LET at == {i \in DOMAIN str : str[i] = sep}
    IN IF at = {} THEN <<str>>
       ELSE <<SubSeq(str, 1, Min(at) - 1)>> \o Split(SubSeq(str, Min(at) + 1, Len(str)), sep)

\* field.trim(): no whitespace at either end
RECURSIVE Trim(_)
Trim(field) ==
    IF field = <<>> THEN <<>>
    ELSE IF Head(field) \in {Blank, LineFeed} THEN Trim(Tail(field))
    ELSE IF field[Len(field)] \in {Blank, LineFeed} THEN Trim(SubSeq(field, 1, Len(field) - 1))
    ELSE field

\* list.map(field => field.trim()).filter(f => f.length > 0)
RECURSIVE TrimAndFilter(_)
TrimAndFilter(list) ==
    IF list = <<>> THEN <<>>
    ELSE (IF Trim(Head(list)) # <<>> THEN <<Trim(Head(list))>> ELSE <<>>)
         \o TrimAndFilter(Tail(list))

\* analyzeFormFields(csvContent)
analyzeFormFields(csvContent) ==
    LET firstLine == BeforeFirst(csvContent, LineFeed)
    IN IF firstLine = <<>> THEN <<>>
       ELSE TrimAndFilter(Split(firstLine, Comma))

\* results[field] = value, for a string value, on an object created by {}:
\* the setter of Object.prototype.__proto__ ignores a string, any other key
\* becomes or stays an own property.
SetProperty(results, field, value) ==
    IF field = <<Proto>> THEN results
    ELSE IF \E i \in DOMAIN results : results[i].key = field
      THEN [i \in DOMAIN results |->
              IF results[i].key = field THEN [key |-> field, value |-> value] ELSE results[i]]
    ELSE Append(results, [key |-> field, value |-> value])

FormFrame ==
    UNCHANGED <<storeVars, apiKey, chatVars, titleJobs, countVars, uiVars, turnAttachments,
                storeOp, pyRuns, mlkbVars, kbVars, watchVars>>

InitForm ==
    /\ InitQuiet
    /\ storeOp = ""
    /\ pyRuns = <<>>
    /\ documents = [l \in LayerSet |-> <<>>]
    /\ disk = [l \in LayerSet |-> <<>>]
    /\ kbNextId = 1
    /\ kbLast = ""
    /\ kbLayer = ""
    /\ InitKnowledgeBase
    /\ files = {}
    /\ watching = FALSE
    /\ handlers = <<>>
    /\ unlinked = {}
    /\ kbFate = <<>>
    /\ formCsv \in CsvInputs
    /\ formPc = "idle"
    /\ formFields = <<>>
    /\ formNext = 1
    /\ formResults = <<>>
    /\ formCalls = <<>>

\* processForm(csvContent) up to the first generateFieldContent (lines
\* 121-127); with no field it returns the empty results.
ProcessForm ==
    /\ formPc = "idle"
    /\ formFields' = analyzeFormFields(formCsv)
    /\ formPc' = IF formFields' = <<>> THEN "resolved" ELSE "filling"
    /\ UNCHANGED <<formCsv, formNext, formResults, formCalls>>
    /\ FormFrame

\* generateFieldContent(field) settles (lines 40-118, 127): with the trimmed
\* answer, which is stored under the field, or with what getModel, the chain
\* or the prompt threw, which processForm does not catch.
GenerateFieldContent(threw) ==
    /\ formPc = "filling"
    /\ LET field == formFields[formNext]
           answer == [field |-> field, call |-> Len(formCalls) + 1]
       IN /\ formCalls' = Append(formCalls, field)
          /\ IF threw
               THEN /\ formPc' = "rejected"
                    /\ UNCHANGED <<formNext, formResults>>
             ELSE /\ formResults' = SetProperty(formResults, field, answer)
                  /\ formNext' = formNext + 1
                  /\ formPc' = IF formNext = Len(formFields) THEN "resolved" ELSE "filling"
    /\ UNCHANGED <<formCsv, formFields>>
    /\ FormFrame

NextForm ==
    \/ ProcessForm
    \/ \E threw \in BOOLEAN : GenerateFieldContent(threw)

SpecForm == InitForm /\ [][NextForm]_vars

\* ------------------------------- a run and the conversation IPC handlers
\* chat() is suspended at an await: gatherContext, model.invoke or a tool.
\* The main process then serves other IPC calls.
Awaiting == pc \in {"gather", "invoke", "tool"}

\* ipcMain.handle('conversation-new') while a run is suspended.
ConversationNew ==
    /\ Awaiting
    /\ CreateConversation

\* ipcMain.handle('conversation-switch', id) while a run is suspended.
ConversationSwitch(id) ==
    /\ Awaiting
    /\ SwitchConversation(id)

\* ipcMain.handle('conversation-delete', id) while a run is suspended.
ConversationDelete(id) ==
    /\ Awaiting
    /\ DeleteConversation(id)

NextRun ==
    \/ \E md \in {"chat", "agent"} : ChatCall(md, FALSE)
    \/ GatherContext
    \/ \E content \in TurnOutputs : ModelResponds(content)
    \/ ModelFails
    \/ \E threw \in BOOLEAN : ToolSettles(threw)
    \/ AppendObservation
    \/ Tick
    \/ ConversationNew
    \/ \E id \in 1..MaxNow : ConversationSwitch(id)
    \/ \E id \in 1..MaxNow : ConversationDelete(id)

SpecRun == Init /\ [][NextRun]_vars

\* ------------------------------------------ the renderer and the IPC handler
\* One call of handleSendMessage.
\*   phase  : the await it stands at: "chat-send" | "conversation-get-current"
\*            | "conversation-get-all" | "returned"
\*   run    : the chat-send handler's call of aiAgent.chat: "sent" (the IPC
\*            message is on its way) | "running" | "resolved" | "rejected"
\*   stopped: handleStopGeneration has run since (history, not program state)
\*   updated: what conversation-get-current returned
NewSend == [phase |-> "chat-send", run |-> "sent", stopped |-> FALSE, updated |-> Null]

\* optimisticUserMsg
OptimisticUserMsg == [role |-> "user", content |-> UserMessage, attachments |-> FALSE]

\* After loadInitialData a conversation is current (one is created when the
\* store is empty) and the renderer shows it.
InitUI ==
    /\ \E conv \in {NewConversation("New Conversation"),
                    [title |-> "Earlier title", messages |-> EarlierExchange]} :
          /\ conversations = (1 :> conv)
          /\ currentConversation = getCurrentConversation(1 :> conv, 1)
    /\ currentConversationId = 1
    /\ now = 2
    /\ apiKey = TRUE
    /\ pc = "idle"
    /\ mode = "agent"
    /\ escalated = FALSE
    /\ attachments = FALSE
    /\ isFirstMessage = FALSE
    /\ titleConv = NoConversation
    /\ iterations = 0
    /\ messages = <<>>
    /\ lastContent = <<>>
    /\ toolName = ""
    /\ output = ""
    /\ result = <<>>
    /\ error = ""
    /\ titleJobs = <<>>
    /\ chatInvocations = 0
    /\ agentInvocations = 0
    /\ dispatches = 0
    /\ kbSearches = 0
    /\ titleStarts = 0
    /\ isSending = FALSE
    /\ sends = <<>>
    /\ turnAttachments = FALSE
    /\ InitServices

\* handleSendMessage up to its await of chat-send (lines 993-1068; no files
\* attached).
HandleSendMessage ==
    /\ ~isSending
    /\ Len(sends) < MaxSends
    /\ isSending' = TRUE
    /\ currentConversation' =
          IF currentConversation.isNull THEN currentConversation
          ELSE [currentConversation EXCEPT !.messages = Append(@, OptimisticUserMsg)]
    /\ sends' = Append(sends, NewSend)
    /\ UNCHANGED <<extVars, storeVars, apiKey, chatVars, titleJobs, countVars>>

\* handleStopGeneration: the stop button is shown while isSending.
HandleStopGeneration ==
    /\ isSending
    /\ isSending' = FALSE
    /\ sends' = [s \in DOMAIN sends |->
                    IF sends[s].phase # "returned" THEN [sends[s] EXCEPT !.stopped = TRUE]
                    ELSE sends[s]]
    /\ UNCHANGED <<extVars, storeVars, apiKey, chatVars, titleJobs, countVars, currentConversation>>

\* The chat-send handler runs (IPC messages arrive in the order sent): it
\* calls aiAgent.chat, which stores the user message before its first await.
ChatSendStarts(s) ==
    /\ s \in DOMAIN sends
    /\ sends[s].run = "sent"
    /\ \A t \in 1..(s - 1) : sends[t].run # "sent"
    /\ LET st == addMessage(conversations, currentConversationId, "user", UserMessage,
                            FALSE, now)
       IN /\ conversations' = st.conversations
          /\ currentConversationId' = st.currentConversationId
          /\ sends' = [sends EXCEPT ![s].run = IF st.threw THEN "rejected" ELSE "running"]
    /\ UNCHANGED <<extVars, now, apiKey, chatVars, titleJobs, countVars, isSending, currentConversation>>

\* aiAgent.chat comes to its end: the answer is stored and the handler
\* resolves with it.
ChatSendResolves(s) ==
    /\ s \in DOMAIN sends
    /\ sends[s].run = "running"
    /\ LET st == addMessage(conversations, currentConversationId, "assistant",
                            <<Txt("plain")>>, FALSE, now)
       IN /\ conversations' = st.conversations
          /\ currentConversationId' = st.currentConversationId
          /\ sends' = [sends EXCEPT ![s].run = IF st.threw THEN "rejected" ELSE "resolved"]
    /\ UNCHANGED <<extVars, now, apiKey, chatVars, titleJobs, countVars, isSending, currentConversation>>

\* aiAgent.chat rejects; the handler rethrows.
ChatSendRejects(s) ==
    /\ s \in DOMAIN sends
    /\ sends[s].run = "running"
    /\ sends' = [sends EXCEPT ![s].run = "rejected"]
    /\ UNCHANGED <<extVars, storeVars, apiKey, chatVars, titleJobs, countVars, isSending,
                   currentConversation>>

\* handleSendMessage resumes after chat-send and invokes
\* conversation-get-current, whose handler reads the store (lines 1071,
\* main.ts 173-175).
ReloadConversation(s) ==
    /\ s \in DOMAIN sends
    /\ sends[s].phase = "chat-send"
    /\ sends[s].run = "resolved"
    /\ sends' = [sends EXCEPT ![s].phase = "conversation-get-current",
                              ![s].updated = getCurrentConversation(conversations,
                                                                    currentConversationId)]
    /\ UNCHANGED <<extVars, storeVars, apiKey, chatVars, titleJobs, countVars, isSending,
                   currentConversation>>

\* setCurrentConversation(updated), then conversation-get-all is invoked
\* (lines 1072-1083; voice reply off).
SetCurrentConversation(s) ==
    /\ s \in DOMAIN sends
    /\ sends[s].phase = "conversation-get-current"
    /\ currentConversation' = sends[s].updated
    /\ sends' = [sends EXCEPT ![s].phase = "conversation-get-all"]
    /\ UNCHANGED <<extVars, storeVars, apiKey, chatVars, titleJobs, countVars, isSending>>

\* The end of handleSendMessage, after conversation-get-all or through the
\* catch block: finally { setIsSending(false) } (lines 1109-1115).
SendReturns(s) ==
    /\ s \in DOMAIN sends
    /\ \/ sends[s].phase = "conversation-get-all"
       \/ sends[s].phase = "chat-send" /\ sends[s].run = "rejected"
    /\ isSending' = FALSE
    /\ sends' = [sends EXCEPT ![s].phase = "returned"]
    /\ UNCHANGED <<extVars, storeVars, apiKey, chatVars, titleJobs, countVars, currentConversation>>

NextUI ==
    \/ HandleSendMessage
    \/ HandleStopGeneration
    \/ \E s \in 1..MaxSends : ChatSendStarts(s)
    \/ \E s \in 1..MaxSends : ChatSendResolves(s)
    \/ \E s \in 1..MaxSends : ChatSendRejects(s)
    \/ \E s \in 1..MaxSends : ReloadConversation(s)
    \/ \E s \in 1..MaxSends : SetCurrentConversation(s)
    \/ \E s \in 1..MaxSends : SendReturns(s)

SpecUI == InitUI /\ [][NextUI]_vars


\* ================================================================ properties
\* The agent loop has acted on the model output lastContent: it has
\* dispatched a tool for it, or chat() has ended on it.
Handled ==
    /\ mode = "agent"
    /\ agentInvocations >= 1
    /\ pc \in {"tool", "done", "rejected"}
    /\ error # "model invocation failed"

\* The last of the messages stored in the current conversation.
LastStoredRole == IF Stored = <<>> THEN "" ELSE Stored[Len(Stored)].role
LastStoredContent == IF Stored = <<>> THEN <<>> ELSE Stored[Len(Stored)].content

\* The model output holds one JSON object that extraction captures and
\* JSON.parse accepts; ParsedName is that object's normalized tool name.
IsParsedCall(c) == jsonMatch(c).found /\ JsonParses(jsonMatch(c).cap)
ParsedName(c) == NormalizeToolName(ToolField(jsonMatch(c).cap[1]))

FencedBlocks(c) ==
    {b \in (1..Len(c)) \X (1..Len(c)) :
        /\ b[1] + 1 < b[2]
        /\ IsFence(c[b[1]]) /\ IsFence(c[b[2]])
        /\ \A k \in (b[1] + 1)..(b[2] - 1) : ~IsFence(c[k])
        /\ Cardinality({k \in 1..(b[1] - 1) : IsFence(c[k])}) % 2 = 0}

\* The text has a fenced block whose payload is not valid JSON.
HasInvalidFencedBlock(c) ==
    \E b \in FencedBlocks(c) : ~(b[2] = b[1] + 2 /\ IsObj(c[b[1] + 1]) /\ c[b[1] + 1].valid)

\* C2 as stated.  In agent mode, when the model output contains a fenced block
\* whose payload is not valid JSON, no tool is dispatched, chat() does not
\* throw, and the raw output is the final answer.
C2_AnyInvalidFencedBlock ==
    (Handled /\ HasInvalidFencedBlock(lastContent))
        => (pc = "done" /\ result = lastContent /\ LastStoredContent = lastContent)

\* C2.  In agent mode, when the payload that tool-call extraction captures
\* from the model output (by the first of its four patterns that matches) is
\* not valid JSON, no tool is dispatched, chat() does not throw, and the raw
\* output is the final answer.
C2_CapturedPayloadInvalid ==
    (Handled /\ jsonMatch(lastContent).found /\ ~JsonParses(jsonMatch(lastContent).cap))
        => (pc = "done" /\ result = lastContent /\ LastStoredContent = lastContent)

C2_Witness ==
    /\ pc = "done"
    /\ mode = "agent"
    /\ lastContent = <<FenceJson, BadJsonCall, Fence>>
    /\ result = lastContent

\* The aliases of a final answer.
AnswerAliases == {"respond", "answer", "final_answer", "response"}

\* The texts a call carries in its response, answer and content fields.
PayloadTexts(d) ==
    {StripTags(FieldVal(d[f], f).s) : f \in {g \in {"response", "answer", "content"} :
                                               d[g] \in {"text", "tagged"}}}

\* C3.  When the parsed, normalized tool name is respond, answer, final_answer
\* or response, no tool is dispatched, chat() does not throw whatever the
\* shape of the payload, and the final answer is a payload text the call
\* carries.
C3_AliasAnswersWithPayload ==
    (/\ Handled
     /\ IsParsedCall(lastContent)
     /\ \E n \in AnswerAliases : ParsedName(lastContent) = Lit(n))
        => /\ pc = "done"
           /\ PayloadTexts(jsonMatch(lastContent).cap[1]) # {}
                 => result \in PayloadTexts(jsonMatch(lastContent).cap[1])

C5_AdvertisedToolsDispatch ==
    \A n \in AdvertisedTools :
        (Handled /\ IsParsedCall(lastContent) /\ ParsedName(lastContent) = Lit(n))
            => (pc = "tool" /\ toolName = n /\ ToolExecutor(n) # "Tool not found")

\* C6 as stated.  After a dispatched tool has failed, the failure is appended
\* as an observation and the loop goes on to another model invocation.
C6_FailureAlwaysContinues ==
    [][(pc = "observe" /\ output = "error")
          => (messages' = Append(messages, "observation") /\ pc' = "invoke")]_vars

\* C6.  A dispatched tool always leaves an output, whether it throws or not;
\* a failure is appended as an observation and chat() does not reject; the
\* loop goes on to another model invocation unless this was dispatch number
\* MAX_ITERATIONS, after which the call ends with the apology as it does after
\* a tool that succeeded.
C6_FailureIsObservation ==
    [][/\ pc = "tool" => pc' = "observe"
       /\ (pc = "observe" /\ output = "error")
             => /\ messages' = Append(messages, "observation")
                /\ iterations' = iterations + 1
                /\ IF iterations + 1 < MAX_ITERATIONS
                     THEN pc' = "invoke"
                   ELSE pc' = "done" /\ result' = Apology.s]_vars

C6_Witness ==
    /\ pc = "observe"
    /\ output = "error"
    /\ iterations = MAX_ITERATIONS - 1
    /\ dispatches = MAX_ITERATIONS

\* C7.  A failed model invocation makes chat() reject in that very step, the
\* attempt being the only one counted; nothing is stored, dispatched or pushed
\* by it, the last stored message is still the user's, and nothing happens
\* after a rejection.
C7_ModelFailurePropagates ==
    [][/\ (error' = "model invocation failed" /\ error # error')
             => /\ pc = "invoke" /\ pc' = "rejected"
                /\ chatInvocations' + agentInvocations'
                      = chatInvocations + agentInvocations + 1
                /\ dispatches' = dispatches
                /\ conversations' = conversations
                /\ messages' = messages
                /\ LastStoredRole' = "user"
       /\ pc = "rejected" => UNCHANGED vars]_vars

C7_Witness ==
    /\ pc = "rejected"
    /\ error = "model invocation failed"
    /\ agentInvocations = 3
    /\ dispatches = 2
    /\ LastStoredRole = "user"

\* What holds of a call that chat mode may escalate.
EscalationState ==
    /\ chatInvocations <= 1
    /\ agentInvocations <= MAX_ITERATIONS
    /\ escalated => (mode = "agent" /\ chatInvocations = 1)
    /\ (pc = "done" /\ mode = "chat")
          => /\ ~IncludesSentinel(result)
             /\ LastStoredRole = "assistant"
             /\ LastStoredContent = result
    /\ (escalated /\ pc = "gather")
          => /\ Len(Stored) >= 2
             /\ Stored[Len(Stored)] = Stored[Len(Stored) - 1]
             /\ Stored[Len(Stored)] =
                  [role |-> "user", content |-> UserMessage, attachments |-> attachments]
    /\ (escalated /\ pc \in {"gather", "invoke", "tool", "observe", "rejected"})
          => LastStoredRole = "user"
    /\ (escalated /\ pc = "done")
          => /\ agentInvocations >= 1
             /\ LastStoredRole = "assistant"
             /\ LastStoredContent = result

\* C8.  Chat mode answers with no output that contains the sentinel: such an
\* output makes the call enter agent mode, once, with the same user message
\* and attachments; nothing is stored for the sentinel output, the answer
\* returned and stored is the agent loop's, agent mode enters nothing again,
\* and the call makes at most one chat invocation and MAX_ITERATIONS agent
\* invocations.
C8_EscalatesOnce ==
    [][/\ EscalationState'
       /\ (pc = "invoke" /\ mode = "agent") => pc' # "gather"
       /\ (pc = "invoke" /\ pc' = "gather")
             => /\ ~escalated /\ escalated'
                /\ mode' = "agent"
                /\ attachments' = attachments
                /\ agentInvocations' = 0]_vars

C8_Witness ==
    /\ pc = "done"
    /\ escalated
    /\ chatInvocations = 1
    /\ agentInvocations = MAX_ITERATIONS
    /\ Len(Stored) >= 3

\* C9.  At most one run of aiAgent.chat is in progress at any time.
C9_OneRunAtATime ==
    Cardinality({s \in DOMAIN sends : sends[s].run = "running"}) <= 1

\* C10.  What a send does after the user has stopped it changes neither the
\* conversation the renderer shows nor isSending.
C10_StoppedResultIgnored ==
    [][\A s \in DOMAIN sends :
          (sends[s].stopped /\ sends'[s].phase # sends[s].phase)
             => (currentConversation' = currentConversation /\ isSending' = isSending)]_vars

\* The first turn of the conversation has completed: the stored messages
\* are its user message (twice when chat mode escalated) and its answer.
FirstTurnDone ==
    /\ pc = "done"
    /\ Len(Stored) = (IF escalated THEN 3 ELSE 2)

\* C11.  Title generation is started at most once for a conversation, and it
\* has been started once the conversation's first turn has completed, in chat
\* mode, in agent mode and in chat mode escalated to agent mode.
C11_FirstTurnStartsTitle ==
    /\ titleStarts <= 1
    /\ FirstTurnDone => titleStarts = 1

\* C12.  A turn the user sent with an attachment makes no knowledge-base
\* search while its context is gathered, whether chat() is called directly
\* or by the chat-send handler.
C12_AttachmentsSkipSearch ==
    turnAttachments => kbSearches = 0

\* C13.  No call of createConversation, addMessage, updateConversationTitle
\* or switchConversation removes a conversation or changes a message already
\* stored: every message list keeps what it held, at the same positions.
C13_MessagesAppendOnly ==
    [][storeOp' # "deleteConversation"
          => \A id \in DOMAIN conversations :
                /\ id \in DOMAIN conversations'
                /\ Len(conversations'[id].messages) >= Len(conversations[id].messages)
                /\ SubSeq(conversations'[id].messages, 1, Len(conversations[id].messages))
                      = conversations[id].messages]_vars

\* The last k elements of a sequence.
LastOf(seq, k) == SubSeq(seq, Len(seq) - k + 1, Len(seq))

\* C14.  For every n >= 0, getRecentMessages(n) is the last min(n, len)
\* messages of the current conversation in their order, and the empty list
\* when no conversation is current.
C14_RecentMessagesWindow ==
    \A n \in 0..(MaxKept + 1) :
        getRecentMessages(conversations, currentConversationId, n)
            = LastOf(Stored, IF n < Len(Stored) THEN n ELSE Len(Stored))

\* C15.  A conversation is current: the pointer is set and names a stored
\* conversation.
C15_OneCurrentConversation ==
    HasCurrentConversation(conversations, currentConversationId)

\* C16.  Each runCode call settles, once: a settled result never changes,
\* whatever close, error or timer event follows; a timer that fires while the
\* subprocess has not closed kills it and the call is resolved with the
\* timed-out text; and every call is settled in the end.
C16_RunCodeSettlesOnce ==
    /\ [][\A i \in DOMAIN pyRuns :
            pyRuns[i].outcome # Pending => pyRuns'[i].outcome = pyRuns[i].outcome]_vars
    /\ [][\A i \in DOMAIN pyRuns :
            (pyRuns[i].timer = "armed" /\ pyRuns'[i].timer = "fired" /\ pyRuns[i].proc # "closed")
                => pyRuns'[i].killed /\ pyRuns'[i].outcome = TimedOut]_vars
    /\ \A i \in 1..MaxRuns :
            (Len(pyRuns) >= i) ~> (Len(pyRuns) >= i /\ pyRuns[i].outcome # Pending)

\* A call timed out, its subprocess was killed and has closed since.
C16_Witness ==
    \E i \in DOMAIN pyRuns :
        /\ pyRuns[i].outcome = TimedOut
        /\ pyRuns[i].killed
        /\ pyRuns[i].proc = "closed"

\* The lists of layers a search is asked for.
LayerChoices ==
    {<<>>, <<"core">>, <<"generated">>, <<"conversation", "generated">>, DefaultLayers}

\* Every stored document, whatever its list.
StoredDocs == UNION {{documents[l][i] : i \in DOMAIN documents[l]} : l \in LayerSet}

\* Title, content and tags are the same.
SameText(d, e) == d.title = e.title /\ d.content = e.content /\ d.tags = e.tags

\* C17.  A document added to a layer is returned by getDocumentsByLayer for
\* that layer only, and by search only when that layer is among the layers
\* asked for.
C17_LayersIsolated ==
    /\ \A B \in LayerSet :
          \A i \in DOMAIN getDocumentsByLayer(documents, B) :
              getDocumentsByLayer(documents, B)[i].origin = B
    /\ \A query \in Queries, layers \in LayerChoices :
          LET results == search(documents, query, layers)
          IN \A k \in DOMAIN results :
                \E j \in DOMAIN layers : layers[j] = results[k].origin

\* Two layers hold documents of the same text, and a search that matches
\* the text, asked for one of the layers, returns that layer's document alone.
C17_Witness ==
    \E d \in StoredDocs, e \in StoredDocs :
        /\ d.origin = "conversation" /\ e.origin = "generated"
        /\ SameText(d, e)
        /\ search(documents, TaxText, <<"generated">>) = <<e>>

Rank(layer) == CHOOSE k \in DOMAIN DefaultLayers : DefaultLayers[k] = layer

\* C19.  A search over the default layers returns each stored document that
\* matches once and no other; core documents come before generated ones and
\* these before conversation ones, and documents of one layer come in the
\* order they were added.
C19_DefaultSearchOrder ==
    \A query \in Queries :
        LET results == search(documents, query, DefaultLayers)
        IN /\ \A d \in StoredDocs :
                Cardinality({k \in DOMAIN results : results[k] = d})
                    = (IF Matches(d, ToLowerCase(query)) THEN 1 ELSE 0)
           /\ \A k \in DOMAIN results : results[k] \in StoredDocs
           /\ \A k1 \in DOMAIN results, k2 \in DOMAIN results :
                k1 < k2 =>
                    \/ Rank(results[k1].origin) < Rank(results[k2].origin)
                    \/ /\ results[k1].origin = results[k2].origin
                       /\ results[k1].uid < results[k2].uid

\* A search returns a generated document before a conversation document that
\* was added earlier.
C19_Witness ==
    \E query \in Queries :
        LET results == search(documents, query, DefaultLayers)
        IN /\ Len(results) = 2
           /\ results[1].origin = "generated"
           /\ results[2].origin = "conversation"
           /\ results[2].uid < results[1].uid

\* C20.  A call that ends with the write of the layer's file failing leaves
\* the lists in memory as they were before the call.
C20_FailedWriteLeavesMemory ==
    [][kbLast' = "threw" => documents' = documents]_vars

\* C22.  After a call that saved a layer and returned, the layer's file
\* holds the list in memory: loading the layer gives the same documents in
\* the same order.
C22_FileHoldsLayer ==
    (kbLast = "returned" /\ kbLayer # "")
        => loadLayer(disk, kbLayer) = getDocumentsByLayer(documents, kbLayer)

\* A call on a layer of one document has returned, while the file of another
\* layer, whose write failed before, differs from memory.
C22_Witness ==
    /\ kbLast = "returned"
    /\ kbLayer # ""
    /\ Len(documents[kbLayer]) = 1
    /\ loadLayer(disk, kbLayer) = documents[kbLayer]
    /\ \E l \in LayerSet : l # kbLayer /\ loadLayer(disk, l) # documents[l]

\* The words of a query as the caller wrote them, those of one character
\* left out.
QueryWords(query) == SelectSeq(Words(query, <<>>), LAMBDA w : Len(w) > 1)

\* What the lexical search of the last search() call gives.
LexicalOfCall == keywordSearch(knowledgeBase.documents, kbCall.query, kbCall.limit)

\* C21.  A store mutation during which the backing file could not be written
\* does not return normally.
C21_WriteFailureReported ==
    kbCall.writeFailed => kbCall.outcome = "threw"

\* C23.  A call in which the vector index failed returns all the same:
\* addDocument has stored the chunks and returns their number, search returns
\* the results of the lexical search.
C23_VectorFailureContained ==
    kbCall.vector = "failed" =>
        /\ kbCall.op = "addDocument" =>
              /\ kbCall.outcome = "returned"
              /\ kbCall.value = kbCall.chunks
              /\ \A uid \in (kbNextChunk - kbCall.chunks)..(kbNextChunk - 1) :
                    \E i \in DOMAIN knowledgeBase.documents :
                        knowledgeBase.documents[i].uid = uid
        /\ (kbCall.op = "search" /\ ~LexicalOfCall.threw) =>
              /\ kbCall.outcome = "returned"
              /\ kbCall.results = LexicalOfCall.results

\* C24.  A search returns no text that deleteDocument or clearAllDocuments
\* has removed: every text returned is the text of a stored document.
C24_DeletedNotReturned ==
    (kbCall.op = "search" /\ kbCall.outcome = "returned") =>
        \A k \in DOMAIN kbCall.results :
            \E i \in DOMAIN knowledgeBase.documents :
                knowledgeBase.documents[i].text = kbCall.results[k].text

\* A keyword of the query occurs in the text or the metadata of the result.
LexicallyMatches(item, query) ==
    \E k \in DOMAIN Keywords(query) :
        \/ Includes(ToLowerCase(item.text), Keywords(query)[k])
        \/ Includes(MetadataStr(item), Keywords(query)[k])

\* C25.  With no embedding model configured, search returns, and returns
\* only documents that match the query lexically: none when none matches.
C25_LexicalOnly ==
    (kbCall.op = "search" /\ ~kbCall.configured) =>
        /\ kbCall.outcome = "returned"
        /\ \A k \in DOMAIN kbCall.results : LexicallyMatches(kbCall.results[k], kbCall.query)

\* C26.  When the vector query succeeded, the result of search is the rows it
\* returned followed by the lexical results whose text is not among them
\* (the two together being no more than the limit).
C26_VectorThenLexical ==
    (kbCall.op = "search" /\ kbCall.vector = "ok"
        /\ Len(kbCall.vectorRows) + Len(LexicalOfCall.results) <= kbCall.limit) =>
        kbCall.results =
            kbCall.vectorRows \o
            SelectSeq(LexicalOfCall.results,
                      LAMBDA item : \A k \in DOMAIN kbCall.vectorRows :
                                        kbCall.vectorRows[k].text # item.text)

\* C27.  A text that the vector query and the lexical search both return is
\* in the result of search once.
C27_SharedTextOnce ==
    (kbCall.op = "search" /\ kbCall.outcome = "returned") =>
        \A k \in DOMAIN kbCall.vectorRows :
            (\E j \in DOMAIN LexicalOfCall.results :
                    LexicalOfCall.results[j].text = kbCall.vectorRows[k].text)
                => Cardinality({m \in DOMAIN kbCall.results :
                                    kbCall.results[m].text = kbCall.vectorRows[k].text}) = 1

\* C28.  Once a vector table exists, a stored chunk that is not in it is
\* still returned by a search whose query has one of its words (the store
\* holding no more chunks than the limit).
C28_StoredStaysRetrievable ==
    (kbCall.op = "search" /\ kbCall.outcome = "returned" /\ lance.exists
        /\ Len(knowledgeBase.documents) <= kbCall.limit) =>
        \A i \in DOMAIN knowledgeBase.documents :
            LET doc == knowledgeBase.documents[i]
            IN (/\ \A r \in DOMAIN lance.rows : lance.rows[r].uid # doc.uid
                /\ \E w \in DOMAIN QueryWords(kbCall.query) :
                        Includes(doc.text, QueryWords(kbCall.query)[w]))
                   => \E k \in DOMAIN kbCall.results : kbCall.results[k].text = doc.text

\* C29.  With no embedding model configured, a search whose query has a word
\* of more than one character that occurs in a stored text returns at least
\* one result, and the text of one of its results contains the word.
C29_StoredWordFound ==
    (kbCall.op = "search" /\ ~kbCall.configured) =>
        \A w \in DOMAIN QueryWords(kbCall.query) :
            (\E i \in DOMAIN knowledgeBase.documents :
                    Includes(knowledgeBase.documents[i].text, QueryWords(kbCall.query)[w]))
                => /\ kbCall.outcome = "returned"
                   /\ \E k \in DOMAIN kbCall.results :
                          Includes(kbCall.results[k].text, QueryWords(kbCall.query)[w])

\* How many elements of a sequence of chunks have this uid.
CountUid(chunks, uid) == Cardinality({i \in DOMAIN chunks : chunks[i].uid = uid})

\* C30.  When reindex has returned success, the vector table holds each
\* stored chunk once and nothing else, and the count returned is the number
\* of stored documents; with no embedding model configured it returns
\* success false and count 0, the table being what it was.
C30_ReindexRebuilds ==
    (kbCall.op = "reindex" /\ reindexRun.pc = "idle") =>
        /\ kbCall.success =>
              /\ \A uid \in 1..MaxChunks :
                    CountUid(lance.rows, uid) = CountUid(knowledgeBase.documents, uid)
              /\ kbCall.value = Len(knowledgeBase.documents)
        /\ kbCall.vector = "none" =>
              /\ ~kbCall.success
              /\ kbCall.value = 0
              /\ lance.rows = kbCall.tableBefore

\* C39.  createConversation replaces no conversation: the id it makes current
\* was not in the store, and the store has one conversation more.
C39_CreateNeverReplaces ==
    [][storeOp' = "createConversation" /\ now' = now
          => /\ currentConversationId' \notin DOMAIN conversations
             /\ Cardinality(DOMAIN conversations') = Cardinality(DOMAIN conversations) + 1]_vars

\* The messages the current conversation held when the call began.
EarlierStored == IF 1 \in DOMAIN conversations THEN EarlierExchange ELSE <<>>

\* C37.  A call that has completed has appended one user message and after it
\* one assistant message to what the conversation held before.
C37_OneUserOneAssistant ==
    pc = "done"
      => /\ Len(Stored) = Len(EarlierStored) + 2
         /\ SubSeq(Stored, 1, Len(EarlierStored)) = EarlierStored
         /\ Stored[Len(Stored) - 1].role = "user"
         /\ Stored[Len(Stored)].role = "assistant"

\* C40.  A call rejected for a missing API key or a failed model invocation
\* leaves no user message without a reply at the end of the conversation.
C40_FailedTurnLeavesStore ==
    pc = "rejected" /\ error \in {"API Key not set", "model invocation failed"}
      => /\ Stored = EarlierStored
         /\ LastStoredRole # "user"

\* k pairs of a model output and a tool observation.
RECURSIVE Pairs(_)
Pairs(k) == IF k = 0 THEN <<>> ELSE Pairs(k - 1) \o <<"ai", "observation">>

\* The initial prompt of the message list, and what was pushed after it.
PromptEnd == CHOOSE i \in 1..Len(messages) : messages[i] = "human"
Prompt == SubSeq(messages, 1, PromptEnd)
Pushed == SubSeq(messages, PromptEnd + 1, Len(messages))

\* The loop was left with the output of a model invocation, not by running
\* out of iterations.
LeftWithOutput == pc = "done" /\ iterations < MAX_ITERATIONS

\* C35.  In an agent run the message list is the initial prompt followed by
\* one (output, observation) pair for every earlier invocation: iterations
\* pairs when the model is invoked for the (iterations + 1)-th time, and the
\* output more once the model has answered, the final answer included; there
\* are never more observations than dispatched tool calls.
C35_MessageListShape ==
    mode = "agent" /\ (pc \in {"invoke", "tool", "observe"} \/ LeftWithOutput)
      => /\ pc = "invoke" => /\ Prompt = <<"system">> \o historyMessages \o <<"human">>
                             /\ agentInvocations = iterations
                             /\ Pushed = Pairs(iterations)
         /\ pc # "invoke" => /\ agentInvocations = iterations + 1
                             /\ Pushed = Pairs(iterations) \o <<"ai">>
         /\ pc \in {"tool", "observe"} => dispatches = iterations + 1
         /\ iterations <= dispatches

\* An agent run has returned the output of its third invocation, after two
\* dispatched tool calls.
C35_Witness == mode = "agent" /\ LeftWithOutput /\ iterations = 2 /\ Len(Pushed) = 5

\* The first match of a list of matches, in the order of the list.
FirstMatch(ms) ==
    LET S == {i \in DOMAIN ms : ms[i].found}
    IN IF S = {} THEN NoMatch ELSE ms[Min(S)]

\* The patterns of lines 551, 555, 560 and 566, and the three of them that
\* look for a closed json block, any closed block and an unfenced object.
Strategies(c) == <<MatchJsonFence(c), MatchAnyFence(c), MatchUnclosedFence(c), MatchRawJson(c)>>
ClosedOrUnfenced(c) == <<MatchJsonFence(c), MatchAnyFence(c), MatchRawJson(c)>>

\* The match m of the last model output decided what the agent loop did with
\* it: a tool is dispatched only if m's capture parses and names that tool,
\* the loop is left only if the capture names no tool that can be run, and
\* the whole output is the answer if there is no match or a capture that
\* does not parse.
Decided(m) ==
    mode = "agent"
      => /\ pc = "tool" => /\ m.found /\ JsonParses(m.cap)
                           /\ toolName = NormalizeToolName(ToolField(m.cap[1])).s[1].id
         /\ LeftWithOutput
              => IF m.found /\ JsonParses(m.cap)
                   THEN LET name == NormalizeToolName(ToolField(m.cap[1]))
                        IN IsPseudoTool(name) \/ ~isRealTool(name)
                 ELSE result = lastContent

\* C36 as stated.  The first match among a closed json block, any closed block
\* and an unfenced object decides the outcome.
C36_ThreeStrategiesDecide == Decided(FirstMatch(ClosedOrUnfenced(lastContent)))

\* C36.  The first match among the four patterns, the unclosed block tried
\* third, decides the outcome; no match makes the whole output the answer.
C36_FirstMatchDecides == Decided(FirstMatch(Strategies(lastContent)))

\* A tool was dispatched from an unclosed block, where the unfenced pattern
\* would have captured something else.
C36_Witness ==
    /\ mode = "agent" /\ pc = "tool"
    /\ ~MatchJsonFence(lastContent).found /\ ~MatchAnyFence(lastContent).found
    /\ MatchUnclosedFence(lastContent).found /\ MatchRawJson(lastContent).found
    /\ MatchUnclosedFence(lastContent).cap # MatchRawJson(lastContent).cap

\* C38.  When a call has completed, the conversation that received its user
\* message ends with that message's reply, and no conversation begins with
\* an assistant message.
C38_ReplyInSameConversation ==
    /\ pc = "done" /\ ~escalated
         => /\ titleConv \in DOMAIN conversations
            /\ LET msgs == conversations[titleConv].messages
               IN /\ Len(msgs) >= 2
                  /\ msgs[Len(msgs)].role = "assistant"
                  /\ msgs[Len(msgs)].content = result
                  /\ msgs[Len(msgs) - 1].role = "user"
    /\ \A id \in DOMAIN conversations :
          conversations[id].messages # <<>> => conversations[id].messages[1].role = "user"

\* The documents of the core layer whose source is filePath.
SourcedFrom(filePath) ==
    {i \in DOMAIN documents["core"] : documents["core"][i].source = filePath}

\* C31.  The core layer holds at most one document for a path.
C31_OneDocumentPerPath ==
    \A filePath \in Paths : Cardinality(SourcedFrom(filePath)) <= 1

\* No handler for filePath is suspended.
NonePending(filePath) == \A i \in DOMAIN handlers : handlers[i].filePath # filePath

\* C32.  When the removal of a watched file has been handled and no handler
\* for its path is left, the core layer holds no document for the path.
C32_RemovedFileLeavesNothing ==
    \A filePath \in unlinked :
        NonePending(filePath) => SourcedFrom(filePath) = {}

\* The list holds the document that the uid-th addDocument made.
HoldsUid(docs, uid) == \E i \in DOMAIN docs : docs[i].uid = uid

\* C33.  When no handler is suspended, the core layer in memory and its file
\* hold every document whose addDocument returned and that no deleteDocument
\* took, and none that a deleteDocument which returned took.
C33_NoLostUpdate ==
    handlers = <<>>
      => \A uid \in DOMAIN kbFate :
            /\ kbFate[uid] = "added"
                 => HoldsUid(documents["core"], uid) /\ HoldsUid(disk["core"], uid)
            /\ kbFate[uid] = "deleted"
                 => ~HoldsUid(documents["core"], uid) /\ ~HoldsUid(disk["core"], uid)

\* Two handlers have run, a document was deleted, another is kept.
C33_Witness ==
    /\ handlers = <<>>
    /\ \E u \in DOMAIN kbFate, v \in DOMAIN kbFate :
          /\ kbFate[u] = "deleted" /\ kbFate[v] = "added"
          /\ HoldsUid(disk["core"], v)

\* The keys of results.
FormKeys == {formResults[i].key : i \in DOMAIN formResults}

\* The headers: the distinct fields of analyzeFormFields.
Headers == {analyzeFormFields(formCsv)[i] : i \in DOMAIN analyzeFormFields(formCsv)}

\* C34.  processForm resolves with one entry for each distinct header, each
\* holding a value generated for its field; the fields were generated in
\* header order; a call with a failed generation has rejected.
C34_OneEntryPerHeader ==
    /\ formPc = "resolved"
         => /\ FormKeys = Headers
            /\ Len(formResults) = Cardinality(Headers)
            /\ \A i \in DOMAIN formResults :
                  /\ formResults[i].value.field = formResults[i].key
                  /\ formCalls[formResults[i].value.call] = formResults[i].key
            /\ formCalls = analyzeFormFields(formCsv)
    /\ formPc = "rejected" => formCalls # <<>>

=============================================================================
